---- MODULE Spec2Model ----
(***************************************************************************)
(* A model of the mapping engine of ExcelFormatter                         *)
(* (src/core/excel_processor.py): void filtering, formula evaluation,      *)
(* direct and blank columns, column ordering.                              *)
(*                                                                         *)
(* Text is modelled as a sequence of one-character strings, so that the    *)
(* regular expressions, str.replace, str.lower and str(float) of the       *)
(* source are computed character by character.                             *)
(***************************************************************************)
EXTENDS Integers, Sequences, FiniteSets, TLC

VARIABLES
    input_df,           \* the table read_excel_file returned
    config,             \* the mapping configuration
    filtered_input_df,  \* apply_mapping: the result of _apply_void_filtering
    output_data,        \* apply_mapping: the dict of the columns built so far
    result_df,          \* apply_mapping: the returned table
    refiltered,         \* the void filter applied to its own result
    k,                  \* apply_mapping: position in output_columns
    raised,             \* the operation raised an exception
    config_file,        \* the content of the file at config_path
    loaded,             \* the config load_config returned
    df_raw,             \* _find_header_row: the sheet read without a header
    idx,                \* _find_header_row: the index of the row of the loop
    header_row,         \* _find_header_row: what it returned
    ws,                 \* apply_excel_formatting: the sheet of the loaded workbook
    output_file,        \* the sheet of the workbook at output_path
    folder,             \* process_folder: the files of the input folder
    excel_files,        \* process_folder: the files the globs found
    next_file,          \* process_folder: position in excel_files
    output_files,       \* process_folder: the paths of the processed files
    attempts,           \* the files process_file has been called on
    now,                \* the clock, in seconds
    disk,               \* the files of the output directory
    mapping_calls,      \* the configs apply_mapping has been called with
    heap,               \* the dicts and lists of the interpreter, by identity
    configs,            \* the configs get_default_config has returned
    changes,            \* the number of changes callers have made to them
    pc

\* the state outside apply_mapping and the ConfigManager
auxVars == <<df_raw, idx, header_row, ws, output_file, folder, excel_files,
            next_file, output_files, attempts, now, disk, mapping_calls, heap, configs, changes>>
\* the state of _find_header_row
scanVars == <<df_raw, idx, header_row>>
\* the state of save_formatted_output
writeVars == <<ws, output_file>>
\* the state of process_folder
batchVars == <<folder, excel_files, next_file, output_files, attempts, now, disk,
              mapping_calls>>
\* the state of the default config
defaultVars == <<heap, configs, changes>>
\* the state of apply_mapping
mappingVars == <<input_df, config, filtered_input_df, output_data, result_df,
                 refiltered, k, raised>>
\* the state of the ConfigManager
configVars == <<config_file, loaded>>

vars == <<input_df, config, filtered_input_df, output_data, result_df,
          refiltered, k, raised, config_file, loaded, auxVars, pc>>

(***************************************************************************)
(* Bounds of the model.                                                    *)
(***************************************************************************)
MaxRows == 2
MaxVal == 1
\* the files of a folder and the seconds of the clock
MaxFiles == 3
MaxSeconds == 1
\* the calls of get_default_config and the changes made to what it returned
MaxCalls == 2
MaxChanges == 2

(***************************************************************************)
(* Characters and text.                                                    *)
(***************************************************************************)
UpperSeq == <<"A","B","C","D","E","F","G","H","I","J","K","L","M",
              "N","O","P","Q","R","S","T","U","V","W","X","Y","Z">>
LowerSeq == <<"a","b","c","d","e","f","g","h","i","j","k","l","m",
              "n","o","p","q","r","s","t","u","v","w","x","y","z">>
DigitSeq == <<"0","1","2","3","4","5","6","7","8","9">>

Range(s) == {s[j] : j \in DOMAIN s}
Min(S) == CHOOSE a \in S : \A b \in S : a <= b
Max(S) == CHOOSE a \in S : \A b \in S : a >= b

Uppers == Range(UpperSeq)
Letters == Range(UpperSeq) \cup Range(LowerSeq)
Digits == Range(DigitSeq)
\* \w: what \b separates from the rest
WordChars == Letters \cup Digits \cup {"_"}
\* \s of the regular expressions, and what str.strip removes
Spaces == {" ", "\t", "\n"}

DigitVal(c) == (CHOOSE j \in DOMAIN DigitSeq : DigitSeq[j] = c) - 1

\* str.lower
LowerChar(c) ==
    IF c \in Uppers THEN LowerSeq[CHOOSE j \in DOMAIN UpperSeq : UpperSeq[j] = c]
    ELSE c
Lower(s) == [j \in DOMAIN s |-> LowerChar(s[j])]

\* s[a..b], empty when b < a
Slice(s, a, b) == IF b < a THEN <<>> ELSE SubSeq(s, a, b)

\* whether sub occurs in s at position p
OccursAt(sub, s, p) ==
    /\ p >= 1
    /\ p + Len(sub) - 1 <= Len(s)
    /\ \A j \in 1..Len(sub) : s[p + j - 1] = sub[j]

\* sub in s
Contains(s, sub) == \E p \in 1..(Len(s) + 1) : OccursAt(sub, s, p)

\* str.strip
NonSpace(s) == {j \in DOMAIN s : s[j] \notin Spaces}
Strip(s) ==
    IF NonSpace(s) = {} THEN <<>>
    ELSE Slice(s, Min(NonSpace(s)), Max(NonSpace(s)))

\* s.startswith("=")
StartsWithEq(s) == Len(s) >= 1 /\ s[1] = "="

(***************************************************************************)
(* Cell values.  t is the Python type of the value: "int", "float" (n/d,   *)
(* d > 0, in lowest terms), "str" (the text s) or "nan" (a missing cell).  *)
(***************************************************************************)
RECURSIVE Gcd(_, _)
Gcd(a, b) == IF b = 0 THEN a ELSE Gcd(b, a % b)
Abs(x) == IF x < 0 THEN -x ELSE x

IntCell(n) == [t |-> "int", n |-> n, d |-> 1, s |-> <<>>]
FloatCell(n, d) ==
    [t |-> "float", n |-> n \div Gcd(Abs(n), d), d |-> d \div Gcd(Abs(n), d),
     s |-> <<>>]
StrCell(s) == [t |-> "str", n |-> 0, d |-> 1, s |-> s]
NanCell == [t |-> "nan", n |-> 0, d |-> 1, s |-> <<>>]
EmptyStr == StrCell(<<>>)

IsNum(c) == c.t \in {"int", "float"}

RECURSIVE DigitsVal(_)
\* the value of a run of decimal digits
DigitsVal(s) ==
    IF s = <<>> THEN 0
    ELSE 10 * DigitsVal(Slice(s, 1, Len(s) - 1)) + DigitVal(s[Len(s)])

RECURSIVE Pow10(_)
Pow10(e) == IF e = 0 THEN 1 ELSE 10 * Pow10(e - 1)

NotANumber == [ok |-> FALSE, n |-> 0, d |-> 1]

\* the digits ip before and fp after the point, with the sign
ParseParts(ip, fp, sign) ==
    IF /\ Len(ip) + Len(fp) >= 1
       /\ \A j \in DOMAIN ip : ip[j] \in Digits
       /\ \A j \in DOMAIN fp : fp[j] \in Digits
    THEN [ok |-> TRUE,
          n |-> sign * (DigitsVal(ip) * Pow10(Len(fp)) + DigitsVal(fp)),
          d |-> Pow10(Len(fp))]
    ELSE NotANumber

\* the position of the first point of body, Len(body) + 1 without one
PointPos(body) ==
    Min({j \in DOMAIN body : body[j] = "."} \cup {Len(body) + 1})

ParseUnsigned(body, sign) ==
    ParseParts(Slice(body, 1, PointPos(body) - 1),
               Slice(body, PointPos(body) + 1, Len(body)), sign)

ParseSigned(s) ==
    IF Len(s) >= 1 /\ s[1] \in {"+", "-"}
    THEN ParseUnsigned(Slice(s, 2, Len(s)), IF s[1] = "-" THEN -1 ELSE 1)
    ELSE ParseUnsigned(s, 1)

\* Parsing text as a number, as float() and pd.to_numeric do for plain decimal
\* text: surrounding blanks, an optional sign, digits, an optional fraction.
ParseNumber(text) == ParseSigned(Strip(text))

ParsedFloat(p) == IF p.ok THEN FloatCell(p.n, p.d) ELSE FloatCell(0, 1)

\* _to_numeric: float(value), 0.0 for a missing or unparsable value
to_numeric(value) ==
    CASE value.t = "nan" -> FloatCell(0, 1)
      [] IsNum(value) -> FloatCell(value.n, value.d)
      [] OTHER -> ParsedFloat(ParseNumber(value.s))

\* pd.to_numeric(column, errors='coerce').fillna(0) == 0, for one cell
CoercesToZero(value) ==
    CASE value.t = "nan" -> TRUE
      [] IsNum(value) -> value.n = 0
      [] OTHER -> ParseNumber(value.s).n = 0

(***************************************************************************)
(* Tables (pandas DataFrames): the column names, the row labels of the     *)
(* index, and the rows, each a sequence of cells in column order.          *)
(***************************************************************************)
DataFrame(columns, index, data) ==
    [columns |-> columns, index |-> index, data |-> data]

\* len(df)
NRows(df) == Len(df.index)

\* col in df.columns
HasColumn(df, col) == col \in Range(df.columns)

ColPos(df, col) == CHOOSE j \in DOMAIN df.columns : df.columns[j] = col

\* df.iloc[:, 0].tolist(): the first column whatever col is
FirstColumnValues(df, col) ==
    [r \in 1..NRows(df) |-> df.data[r][1]]

\* df[col].tolist()
ColumnValues(df, col) ==
    [r \in 1..NRows(df) |-> df.data[r][ColPos(df, col)]]

(***************************************************************************)
(* The configuration: void, output_columns and column_order; a key the     *)
(* code reads with .get has its default when absent.  A rule carries its   *)
(* name, its source_column and formatting.remove_asterisks.                *)
(***************************************************************************)
Rule(name, source_column, remove_asterisks) ==
    [name |-> name, source_column |-> source_column,
     remove_asterisks |-> remove_asterisks]

Config(enabled, zero_columns, output_columns, column_order) ==
    [void |-> [enabled |-> enabled, zero_columns |-> zero_columns],
     output_columns |-> output_columns,
     column_order |-> column_order]

(***************************************************************************)
(* _apply_void_filtering.  A boolean Series is a function from row labels  *)
(* to BOOLEAN; & aligns its operands on the union of their labels and      *)
(* takes a label missing from one side as False.                           *)
(***************************************************************************)
\* pd.Series([True] * len(df)): labels 0 .. len(df)-1
InitialMask(df) == [l \in 0..(NRows(df) - 1) |-> TRUE]

\* the position of the row labelled l
RowOf(df, l) == CHOOSE q \in 1..NRows(df) : df.index[q] = l

\* pd.to_numeric(df[col], errors='coerce').fillna(0) == 0: labelled as df is
ColMask(df, col) ==
    [l \in Range(df.index) |->
        CoercesToZero(df.data[RowOf(df, l)][ColPos(df, col)])]

\* mask | col_mask: a row is masked as soon as one of the columns is zero
SeriesOr(m, c) ==
    [l \in (DOMAIN m) \cup (DOMAIN c) |->
        \/ (l \in DOMAIN m /\ m[l])
        \/ (l \in DOMAIN c /\ c[l])]

\* mask & col_mask
SeriesAnd(m, c) ==
    [l \in (DOMAIN m) \cup (DOMAIN c) |->
        /\ l \in DOMAIN m
        /\ l \in DOMAIN c
        /\ m[l]
        /\ c[l]]

RECURSIVE VoidMask(_, _, _)
\* the loop over existing_columns
VoidMask(df, cols, mask) ==
    IF cols = <<>> THEN mask
    ELSE VoidMask(df, Tail(cols), SeriesAnd(mask, ColMask(df, Head(cols))))

RECURSIVE KeptPositionsButFirst(_, _, _)
\* the positions left when only the first masked row is dropped
KeptPositionsButFirst(index, mask, from) ==
    IF from > Len(index) THEN <<>>
    ELSE IF mask[index[from]]
         THEN [j \in 1..(Len(index) - from) |-> from + j]
    ELSE <<from>> \o KeptPositionsButFirst(index, mask, from + 1)

RECURSIVE KeptPositions(_, _, _)
\* the positions of the rows of df[~mask], in order
KeptPositions(index, mask, from) ==
    IF from > Len(index) THEN <<>>
    ELSE (IF mask[index[from]] THEN <<>> ELSE <<from>>)
         \o KeptPositions(index, mask, from + 1)

\* the rows of df at the positions kept, with their labels
TakeRows(df, kept) ==
    DataFrame(df.columns,
              [j \in DOMAIN kept |-> df.index[kept[j]]],
              [j \in DOMAIN kept |-> df.data[kept[j]]])

\* df[~mask].copy(): the rows keep their labels
DropMasked(df, mask) == TakeRows(df, KeptPositions(df.index, mask, 1))

\* void_rows = mask.sum(); df[~mask].copy() if void_rows > 0 else df
RemoveVoidRows(df, mask) ==
    IF Cardinality({l \in DOMAIN mask : mask[l]}) > 0
    THEN DropMasked(df, mask)
    ELSE df

ExistingColumns(df, zero_columns) ==
    SelectSeq(zero_columns, LAMBDA col : HasColumn(df, col))

FilterOn(df, existing_columns) ==
    IF existing_columns = <<>> THEN df
    ELSE RemoveVoidRows(df, VoidMask(df, existing_columns, InitialMask(df)))

\* a filter that returns the table as it is
no_void_filtering(df, cfg) == df

apply_void_filtering(df, cfg) ==
    IF ~cfg.void.enabled THEN df
    ELSE IF cfg.void.zero_columns = <<>> THEN df
    ELSE FilterOn(df, ExistingColumns(df, cfg.void.zero_columns))

(***************************************************************************)
(* str(value), for the values a cell can hold.                             *)
(***************************************************************************)
RECURSIVE NatStr(_)
NatStr(n) ==
    IF n < 10 THEN <<DigitSeq[n + 1]>>
    ELSE NatStr(n \div 10) \o <<DigitSeq[(n % 10) + 1]>>

IntStr(n) == IF n < 0 THEN <<"-">> \o NatStr(-n) ELSE NatStr(n)

RECURSIVE FracDigits(_, _, _)
\* the decimal digits of rem/d, at most left of them
FracDigits(rem, d, left) ==
    IF rem = 0 \/ left = 0 THEN <<>>
    ELSE <<DigitSeq[((10 * rem) \div d) + 1]>>
         \o FracDigits((10 * rem) % d, d, left - 1)

\* str of a float: 4.0, -2.0, 0.5, 0.3333333333333333
FloatStr(n, d) ==
    IF d = 1 THEN IntStr(n) \o <<".", "0">>
    ELSE (IF n < 0 THEN <<"-">> ELSE <<>>)
         \o NatStr(Abs(n) \div d) \o <<".">>
         \o FracDigits(Abs(n) % d, d, 16)

Str(value) ==
    CASE value.t = "int" -> IntStr(value.n)
      [] value.t = "float" -> FloatStr(value.n, value.d)
      [] value.t = "nan" -> <<"n", "a", "n">>
      [] OTHER -> value.s

(***************************************************************************)
(* _replace_formula_references: the candidate names of a formula.          *)
(***************************************************************************)
\* the first double quote after position p, Len(f) + 1 without one
NextQuote(f, p) == Min({c \in (p + 1)..Len(f) : f[c] = "\""} \cup {Len(f) + 1})

RECURSIVE QuotedNames(_, _)
\* re.findall(r'"([^"]+)"', formula), scanning from position p
QuotedNames(f, p) ==
    IF p > Len(f) THEN <<>>
    ELSE IF f[p] = "\"" /\ NextQuote(f, p) <= Len(f) /\ NextQuote(f, p) > p + 1
         THEN <<Slice(f, p + 1, NextQuote(f, p) - 1)>>
              \o QuotedNames(f, NextQuote(f, p) + 1)
         ELSE QuotedNames(f, p + 1)

\* [A-Za-z0-9_\s\-]
NameChars == WordChars \cup Spaces \cup {"-"}

\* \b at the gap before position p (1 .. Len+1) of s
Boundary(s, p) ==
    (p > 1 /\ s[p - 1] \in WordChars) # (p <= Len(s) /\ s[p] \in WordChars)

\* where a match of [A-Za-z][A-Za-z0-9_\s\-]*[A-Za-z0-9_]\b that starts at p
\* ends: the greedy * takes the last position that can end one; 0 if none
NameEnd(f, p) ==
    Max({e \in (p + 1)..Len(f) :
            /\ \A j \in (p + 1)..(e - 1) : f[j] \in NameChars
            /\ f[e] \in WordChars
            /\ Boundary(f, e + 1)} \cup {0})

RECURSIVE UnquotedNames(_, _)
\* re.findall(r'\b[A-Za-z][A-Za-z0-9_\s\-]*[A-Za-z0-9_]\b', formula), from p
UnquotedNames(f, p) ==
    IF p > Len(f) THEN <<>>
    ELSE IF f[p] \in Letters /\ Boundary(f, p) /\ NameEnd(f, p) # 0
         THEN <<Slice(f, p, NameEnd(f, p))>>
              \o UnquotedNames(f, NameEnd(f, p) + 1)
         ELSE UnquotedNames(f, p + 1)

\* set(quoted_names + unquoted_names)
Words(f) == Range(QuotedNames(f, 1)) \cup Range(UnquotedNames(f, 1))

\* the sequences that list every element of W once
Orders(W) ==
    {o \in [1..Cardinality(W) -> W] :
        \A a, b \in DOMAIN o : a # b => o[a] # o[b]}

\* list(set(...)): the orders in which the loop may visit the words
WordOrders(f) == Orders(Words(f))

ReservedWords ==
    {<<"a","n","d">>, <<"o","r">>, <<"n","o","t">>, <<"a","b","s">>,
     <<"s","u","m">>, <<"a","v","g">>, <<"m","a","x">>, <<"m","i","n">>}

(***************************************************************************)
(* _find_column_value.  None is [found |-> FALSE].                         *)
(***************************************************************************)
None == [found |-> FALSE, value |-> NanCell]
Some(value) == [found |-> TRUE, value |-> value]

\* the first of the positions S of a row of n columns, 0 if there is none
FirstPos(S, n) == Min(S \cup {n + 1}) % (n + 1)

\* if col_name in row.index
ExactMatch(col_name, columns) ==
    FirstPos({j \in DOMAIN columns : columns[j] = col_name}, Len(columns))

\* str(col).lower() == col_name.lower()
NoCaseMatch(col_name, columns) ==
    FirstPos({j \in DOMAIN columns : Lower(columns[j]) = Lower(col_name)},
             Len(columns))

\* col_name.lower() in str(col).lower() or str(col).lower() in col_name.lower()
PartialMatch(col_name, columns) ==
    FirstPos({j \in DOMAIN columns :
                 \/ Contains(Lower(columns[j]), Lower(col_name))
                 \/ Contains(Lower(col_name), Lower(columns[j]))},
             Len(columns))

\* the partial pass alone
MatchPosPartialOnly(col_name, columns) == PartialMatch(col_name, columns)

\* the position of the column the three passes find, 0 if none
MatchPos(col_name, columns) ==
    IF ExactMatch(col_name, columns) # 0 THEN ExactMatch(col_name, columns)
    ELSE IF NoCaseMatch(col_name, columns) # 0
         THEN NoCaseMatch(col_name, columns)
    ELSE PartialMatch(col_name, columns)

NumericAt(row, pos) == IF pos = 0 THEN None ELSE Some(to_numeric(row[pos]))

find_column_value(col_name, columns, row) ==
    NumericAt(row, MatchPos(col_name, columns))

(***************************************************************************)
(* output_data: the dict of the columns built so far, the keys in          *)
(* insertion order.                                                        *)
(***************************************************************************)
EmptyDict == [keys |-> <<>>, cols |-> <<>>]

\* name in output_data
InDict(dict, name) == name \in Range(dict.keys)

KeyPos(dict, name) == CHOOSE j \in DOMAIN dict.keys : dict.keys[j] = name

\* output_data[name]
DictGet(dict, name) == dict.cols[KeyPos(dict, name)]

\* output_data[name] = column: a known key keeps its place
DictSet(dict, name, column) ==
    IF InDict(dict, name)
    THEN [dict EXCEPT !.cols[KeyPos(dict, name)] = column]
    ELSE [keys |-> Append(dict.keys, name),
          cols |-> Append(dict.cols, column)]

\* output_data[word_clean][row_idx], None on IndexError
OutputValue(dict, word_clean, row_idx) ==
    IF InDict(dict, word_clean) /\ row_idx + 1 <= Len(DictGet(dict, word_clean))
    THEN Some(DictGet(dict, word_clean)[row_idx + 1])
    ELSE None

\* if value is None and word_clean in output_data
OrOutputValue(value, dict, word_clean, row_idx) ==
    IF value.found THEN value ELSE OutputValue(dict, word_clean, row_idx)

\* the value a word resolves to: the input row first, then output_data
ResolveWord(word_clean, columns, row, dict, row_idx) ==
    OrOutputValue(find_column_value(word_clean, columns, row), dict,
                  word_clean, row_idx)

(***************************************************************************)
(* The substitution of one word.                                           *)
(***************************************************************************)
RECURSIVE StrReplace(_, _, _, _)
\* s.replace(old, new) for a non-empty old, from position p
StrReplace(s, old, new, p) ==
    IF p > Len(s) THEN <<>>
    ELSE IF OccursAt(old, s, p)
         THEN new \o StrReplace(s, old, new, p + Len(old))
         ELSE <<s[p]>> \o StrReplace(s, old, new, p + 1)

RECURSIVE ReSubWord(_, _, _, _)
\* re.sub(r'\b' + re.escape(word) + r'\b', new, s), from position p; an empty
\* word matches at every word boundary
ReSubWord(s, word, new, p) ==
    IF p > Len(s)
    THEN IF word = <<>> /\ Boundary(s, p) THEN new ELSE <<>>
    ELSE IF word = <<>>
         THEN (IF Boundary(s, p) THEN new ELSE <<>>)
              \o <<s[p]>> \o ReSubWord(s, word, new, p + 1)
         ELSE IF /\ OccursAt(word, s, p)
                 /\ Boundary(s, p)
                 /\ Boundary(s, p + Len(word))
              THEN new \o ReSubWord(s, word, new, p + Len(word))
              ELSE <<s[p]>> \o ReSubWord(s, word, new, p + 1)

\* if value is not None: the word replaced by str(value)
Substitute(replaced_formula, word_clean, value) ==
    IF ~value.found THEN replaced_formula
    ELSE IF " " \in Range(word_clean) \/ "-" \in Range(word_clean)
         THEN StrReplace(replaced_formula, word_clean, Str(value.value), 1)
         ELSE ReSubWord(replaced_formula, word_clean, Str(value.value), 1)

ReplaceClean(replaced_formula, word_clean, columns, row, dict, row_idx) ==
    IF Lower(word_clean) \in ReservedWords THEN replaced_formula
    ELSE Substitute(replaced_formula, word_clean,
                    ResolveWord(word_clean, columns, row, dict, row_idx))

\* the body of the loop over words, for one word
ReplaceWord(replaced_formula, word, columns, row, dict, row_idx) ==
    ReplaceClean(replaced_formula, Strip(word), columns, row, dict, row_idx)

RECURSIVE ReplaceWords(_, _, _, _, _, _)
ReplaceWords(replaced_formula, words, columns, row, dict, row_idx) ==
    IF words = <<>> THEN replaced_formula
    ELSE ReplaceWords(
            ReplaceWord(replaced_formula, Head(words), columns, row, dict,
                        row_idx),
            Tail(words), columns, row, dict, row_idx)

\* _replace_formula_references, the words visited in the given order
replace_formula_references(formula, words, columns, row, dict, row_idx) ==
    ReplaceWords(formula, words, columns, row, dict, row_idx)

(***************************************************************************)
(* _is_safe_expression.                                                    *)
(***************************************************************************)
AllowedChars ==
    Digits \cup {"+", "-", "*", "/", "(", ")", ".", "_", " "}

Dangerous ==
    {<<"i","m","p","o","r","t">>, <<"e","x","e","c">>, <<"e","v","a","l">>,
     <<"_","_">>, <<"o","p","e","n">>, <<"f","i","l","e">>}

is_safe_expression(expr) ==
    /\ \A j \in DOMAIN expr : expr[j] \in AllowedChars
    /\ ~\E dangerous \in Dangerous : Contains(Lower(expr), dangerous)

(***************************************************************************)
(* eval of an expression that passed _is_safe_expression: numbers, the     *)
(* operators + - * /, unary signs and parentheses, computed exactly over   *)
(* the rationals.  An expression Python rejects (SyntaxError, NameError,   *)
(* TypeError, ZeroDivisionError) has ok = FALSE.  The operators ** and //  *)
(* are outside the model: no formula of the model spells them.             *)
(***************************************************************************)
NumTok(n, d, f) == [k |-> "num", c |-> "", n |-> n, d |-> d, f |-> f]
OpTok(c) == [k |-> "op", c |-> c, n |-> 0, d |-> 1, f |-> FALSE]
BadTok == [k |-> "bad", c |-> "", n |-> 0, d |-> 1, f |-> FALSE]

\* single underscores may separate the digits of a literal
UnderscoresOk(run) ==
    \A j \in DOMAIN run :
        run[j] = "_" => /\ j > 1
                        /\ j < Len(run)
                        /\ run[j - 1] \in Digits
                        /\ run[j + 1] \in Digits

\* an integer literal other than zero has no leading zero
LiteralToken(isfloat, plain, parsed) ==
    IF parsed.ok /\ (isfloat \/ Len(plain) = 1 \/ plain[1] # "0" \/ parsed.n = 0)
    THEN NumTok(parsed.n, parsed.d, isfloat)
    ELSE BadTok

PlainNumber(isfloat, plain) ==
    LiteralToken(isfloat, plain, ParseUnsigned(plain, 1))

\* a number literal
NumberToken(run) ==
    IF UnderscoresOk(run)
    THEN PlainNumber("." \in Range(run), SelectSeq(run, LAMBDA c : c # "_"))
    ELSE BadTok

NumChars == Digits \cup {".", "_"}

\* the last position of the run of number characters that starts at p
RunEnd(expr, p) ==
    Min({j \in p..Len(expr) : expr[j] \notin NumChars} \cup {Len(expr) + 1}) - 1

RECURSIVE Tokens(_, _)
Tokens(expr, p) ==
    IF p > Len(expr) THEN <<>>
    ELSE IF expr[p] = " " THEN Tokens(expr, p + 1)
    ELSE IF expr[p] \in NumChars
         THEN <<NumberToken(Slice(expr, p, RunEnd(expr, p)))>>
              \o Tokens(expr, RunEnd(expr, p) + 1)
         ELSE <<OpTok(expr[p])>> \o Tokens(expr, p + 1)

\* the evaluator: the values and the operators waiting for their operands
\* ("n" and "p" are the unary - and +), and whether an operand must come next
Machine(vals, ops, operand, ok) ==
    [vals |-> vals, ops |-> ops, operand |-> operand, ok |-> ok]
Failed == Machine(<<>>, <<>>, TRUE, FALSE)

Num(n, d, f) ==
    [n |-> n \div Gcd(Abs(n), d), d |-> d \div Gcd(Abs(n), d), f |-> f]

\* unary operators bind tighter than * and /, these tighter than + and -
Prec(op) == CASE op \in {"n", "p"} -> 3
              [] op \in {"*", "/"} -> 2
              [] op \in {"+", "-"} -> 1
              [] OTHER -> 0

Last(s) == s[Len(s)]
Front(s) == Slice(s, 1, Len(s) - 1)

\* a op b; ok = FALSE for a division by zero
Binary(op, a, b) ==
    CASE op = "+" -> [ok |-> TRUE,
                      v |-> Num(a.n * b.d + b.n * a.d, a.d * b.d, a.f \/ b.f)]
      [] op = "-" -> [ok |-> TRUE,
                      v |-> Num(a.n * b.d - b.n * a.d, a.d * b.d, a.f \/ b.f)]
      [] op = "*" -> [ok |-> TRUE,
                      v |-> Num(a.n * b.n, a.d * b.d, a.f \/ b.f)]
      [] OTHER -> IF b.n = 0 THEN [ok |-> FALSE, v |-> Num(0, 1, FALSE)]
                  ELSE [ok |-> TRUE,
                        v |-> Num((IF b.n < 0 THEN -1 ELSE 1) * a.n * b.d,
                                  a.d * Abs(b.n), TRUE)]

Reduced(m, keep, r) ==
    IF r.ok THEN Machine(Append(keep, r.v), Front(m.ops), FALSE, TRUE)
    ELSE Failed

\* the operator on top of the stack applied to the values on top
Reduce(m) ==
    CASE Last(m.ops) = "n" ->
            Machine(Append(Front(m.vals),
                           Num(-Last(m.vals).n, Last(m.vals).d, Last(m.vals).f)),
                    Front(m.ops), FALSE, TRUE)
      [] Last(m.ops) = "p" -> Machine(m.vals, Front(m.ops), FALSE, TRUE)
      [] OTHER ->
            Reduced(m, Front(Front(m.vals)),
                    Binary(Last(m.ops), Last(Front(m.vals)), Last(m.vals)))

RECURSIVE ReduceWhile(_, _)
\* apply the waiting operators that bind at least as tightly as prec
ReduceWhile(m, prec) ==
    IF m.ok /\ m.ops # <<>> /\ Last(m.ops) # "(" /\ Prec(Last(m.ops)) >= prec
    THEN ReduceWhile(Reduce(m), prec)
    ELSE m

\* ")" after the operators inside the parentheses were applied
CloseParen(r) ==
    IF r.ok /\ r.ops # <<>>
    THEN Machine(r.vals, Front(r.ops), FALSE, TRUE)
    ELSE Failed

\* a binary operator after the operators that bind as tightly were applied
PushBinary(r, op) ==
    IF r.ok THEN Machine(r.vals, Append(r.ops, op), TRUE, TRUE) ELSE Failed

\* the machine after one more token
Shift(m, tok) ==
    IF tok.k = "bad" THEN Failed
    ELSE IF tok.k = "num"
         THEN IF m.operand
              THEN Machine(Append(m.vals, Num(tok.n, tok.d, tok.f)), m.ops,
                           FALSE, TRUE)
              ELSE Failed
    ELSE IF tok.c = "("
         THEN IF m.operand
              THEN Machine(m.vals, Append(m.ops, "("), TRUE, TRUE)
              ELSE Failed
    ELSE IF tok.c = ")"
         THEN IF m.operand THEN Failed ELSE CloseParen(ReduceWhile(m, 1))
    ELSE IF m.operand
         THEN IF tok.c \in {"+", "-"}
              THEN Machine(m.vals,
                           Append(m.ops, IF tok.c = "-" THEN "n" ELSE "p"),
                           TRUE, TRUE)
              ELSE Failed
    ELSE PushBinary(ReduceWhile(m, Prec(tok.c)), tok.c)

RECURSIVE ShiftAll(_, _)
ShiftAll(m, toks) ==
    IF toks = <<>> \/ ~m.ok THEN m
    ELSE ShiftAll(Shift(m, Head(toks)), Tail(toks))

EvalError == [ok |-> FALSE, value |-> IntCell(0)]

\* the value left when every operator was applied
Result(r) ==
    IF r.ok /\ r.ops = <<>>
    THEN [ok |-> TRUE,
          value |-> IF r.vals[1].f THEN FloatCell(r.vals[1].n, r.vals[1].d)
                    ELSE IntCell(r.vals[1].n)]
    ELSE EvalError

Finish(m) == IF m.ok /\ ~m.operand THEN Result(ReduceWhile(m, 1)) ELSE EvalError

\* eval(expr): [ok, value]
Eval(expr) == Finish(ShiftAll(Machine(<<>>, <<>>, TRUE, TRUE), Tokens(expr, 1)))

(***************************************************************************)
(* _evaluate_formula.                                                      *)
(***************************************************************************)
\* evaluated_formula.replace('"', '')
StripQuotes(expr) == SelectSeq(expr, LAMBDA c : c # "\"")

\* except Exception: result.append(0)
ValueOrZero(calculated) ==
    IF calculated.ok THEN calculated.value ELSE IntCell(0)

\* the value appended for a row, given its substituted formula
SafeEval(evaluated_formula) ==
    IF is_safe_expression(evaluated_formula)
    THEN ValueOrZero(Eval(evaluated_formula))
    ELSE IF is_safe_expression(StripQuotes(evaluated_formula))
         THEN ValueOrZero(Eval(StripQuotes(evaluated_formula)))
         ELSE IntCell(0)

\* the body of the loop over the rows, for the row at position r
EvaluateRow(formula_clean, words, df, dict, r) ==
    SafeEval(replace_formula_references(formula_clean, words, df.columns,
                                        df.data[r], dict, df.index[r]))

\* formula[1:].strip()
FormulaClean(formula) == Strip(Slice(formula, 2, Len(formula)))

\* without the try of the loop body: an error in one row reaches the outer
\* except, which returns [0] * len(input_df)
evaluate_formula_abort(formula, words, df, dict) ==
    IF \E r \in 1..NRows(df) :
          /\ is_safe_expression(
                 replace_formula_references(FormulaClean(formula), words,
                     df.columns, df.data[r], dict, df.index[r]))
          /\ ~Eval(replace_formula_references(FormulaClean(formula), words,
                       df.columns, df.data[r], dict, df.index[r])).ok
    THEN [r \in 1..NRows(df) |-> IntCell(0)]
    ELSE [r \in 1..NRows(df) |->
             EvaluateRow(FormulaClean(formula), words, df, dict, r)]

evaluate_formula(formula, words, df, dict) ==
    [r \in 1..NRows(df) |-> EvaluateRow(FormulaClean(formula), words, df, dict, r)]

(***************************************************************************)
(* _map_column.                                                            *)
(***************************************************************************)
\* [""] * len(input_df): one blank per row of the unfiltered input
BlanksOfInput(df) == [r \in 1..NRows(input_df) |-> EmptyStr]

\* [""] * len(df)
Blanks(df) == [r \in 1..NRows(df) |-> EmptyStr]

\* str(value).replace("*", "") if pd.notna(value) else value
RemoveAsterisks(value) ==
    IF value.t = "nan" THEN value
    ELSE StrCell(SelectSeq(Str(value), LAMBDA c : c # "*"))

\* the transformations of the values of the source column
Transform(values, col_config) ==
    IF col_config.remove_asterisks
    THEN [r \in DOMAIN values |-> RemoveAsterisks(values[r])]
    ELSE values

\* a _map_column that fills an unknown source with missing values
map_column_missing(source_column, df, col_config) ==
    IF HasColumn(df, source_column)
    THEN Transform(ColumnValues(df, source_column), col_config)
    ELSE [r \in 1..NRows(df) |-> NanCell]

map_column(source_column, df, col_config) ==
    IF HasColumn(df, source_column)
    THEN Transform(ColumnValues(df, source_column), col_config)
    ELSE Blanks(df)

(***************************************************************************)
(* apply_mapping, one step per rule of output_columns.                     *)
(***************************************************************************)
NoTable == DataFrame(<<>>, <<>>, <<>>)
NoResult == [columns |-> <<>>, cols |-> <<>>]

\* col_config.get("name", "").strip()
ColName(col_config) == Strip(col_config.name)

\* the rule the loop is at
ColConfig == config.output_columns[k]
InLoop == pc = "map" /\ k <= Len(config.output_columns)

\* filtered_input_df = self._apply_void_filtering(input_df, config)
ApplyVoidFiltering ==
    /\ pc = "start"
    /\ filtered_input_df' = apply_void_filtering(input_df, config)
    /\ pc' = "map"
    /\ UNCHANGED <<auxVars, config_file, loaded, input_df, config, output_data, result_df, refiltered, k,
                   raised>>

\* if not col_name: continue
SkipRule ==
    /\ InLoop
    /\ ColName(ColConfig) = <<>>
    /\ k' = k + 1
    /\ UNCHANGED <<auxVars, config_file, loaded, input_df, config, filtered_input_df, output_data,
                   result_df, refiltered, raised, pc>>

\* source_column.startswith("="): the formula column
MapFormula ==
    /\ InLoop
    /\ ColName(ColConfig) # <<>>
    /\ StartsWithEq(ColConfig.source_column)
    /\ \E words \in WordOrders(FormulaClean(ColConfig.source_column)) :
          output_data' =
              DictSet(output_data, ColName(ColConfig),
                      evaluate_formula(ColConfig.source_column, words,
                                       filtered_input_df, output_data))
    /\ k' = k + 1
    /\ UNCHANGED <<auxVars, config_file, loaded, input_df, config, filtered_input_df, result_df,
                   refiltered, raised, pc>>

\* source_column == "": the blank column
MapBlank ==
    /\ InLoop
    /\ ColName(ColConfig) # <<>>
    /\ ColConfig.source_column = <<>>
    /\ output_data' = DictSet(output_data, ColName(ColConfig),
                              Blanks(filtered_input_df))
    /\ k' = k + 1
    /\ UNCHANGED <<auxVars, config_file, loaded, input_df, config, filtered_input_df, result_df,
                   refiltered, raised, pc>>

\* otherwise: the direct column
MapDirect ==
    /\ InLoop
    /\ ColName(ColConfig) # <<>>
    /\ ~StartsWithEq(ColConfig.source_column)
    /\ ColConfig.source_column # <<>>
    /\ output_data' = DictSet(output_data, ColName(ColConfig),
                              map_column(ColConfig.source_column,
                                         filtered_input_df, ColConfig))
    /\ k' = k + 1
    /\ UNCHANGED <<auxVars, config_file, loaded, input_df, config, filtered_input_df, result_df,
                   refiltered, raised, pc>>

\* [col for col in column_order if col in result_df.columns]
ValidOrder(columns, column_order) ==
    SelectSeq(column_order, LAMBDA col : col \in Range(columns))

\* valid_order alone: the columns column_order does not list are dropped
WithoutRemaining(columns, valid_order) == valid_order

\* valid_order + [col for col in result_df.columns if col not in valid_order]
WithRemaining(columns, valid_order) ==
    valid_order \o SelectSeq(columns, LAMBDA col : col \notin Range(valid_order))

FinalOrder(columns, column_order) ==
    IF column_order = <<>> THEN columns
    ELSE WithRemaining(columns, ValidOrder(columns, column_order))

\* pd.DataFrame(output_data) needs columns of one length
SameLengths(dict) ==
    \A a, b \in DOMAIN dict.cols : Len(dict.cols[a]) = Len(dict.cols[b])

\* result_df[final_order]
Reordered(dict, final_order) ==
    [columns |-> final_order,
     cols |-> [j \in DOMAIN final_order |-> DictGet(dict, final_order[j])]]

\* result_df = pd.DataFrame(output_data); result_df[final_order]
Assemble ==
    /\ pc = "map"
    /\ k > Len(config.output_columns)
    /\ IF SameLengths(output_data)
       THEN /\ result_df' =
                  Reordered(output_data,
                            FinalOrder(output_data.keys, config.column_order))
            /\ raised' = FALSE
       ELSE /\ raised' = TRUE
            /\ UNCHANGED result_df
    /\ pc' = "done"
    /\ UNCHANGED <<auxVars, config_file, loaded, input_df, config, filtered_input_df, output_data,
                   refiltered, k>>

\* _apply_void_filtering applied to the table it returned
Refilter ==
    /\ pc = "map"
    /\ refiltered' = apply_void_filtering(filtered_input_df, config)
    /\ pc' = "refiltered"
    /\ UNCHANGED <<auxVars, config_file, loaded, input_df, config, filtered_input_df, output_data,
                   result_df, k, raised>>

(***************************************************************************)
(* The values of a config as Python holds them: dict (keys and items in    *)
(* insertion order), list, str, int, float (n/d), bool and None.  The keys *)
(* of a dict are strings; a str value is a sequence of characters.         *)
(***************************************************************************)
PyValue(t, n, d, str, keys, items) ==
    [t |-> t, n |-> n, d |-> d, s |-> str, keys |-> keys, items |-> items]
PyDict(keys, items) == PyValue("dict", 0, 1, <<>>, keys, items)
PyList(items) == PyValue("list", 0, 1, <<>>, <<>>, items)
PyStr(str) == PyValue("str", 0, 1, str, <<>>, <<>>)
PyInt(n) == PyValue("int", n, 1, <<>>, <<>>, <<>>)
PyFloat(n, d) == PyValue("float", n, d, <<>>, <<>>, <<>>)
PyBool(b) == PyValue("bool", IF b THEN 1 ELSE 0, 1, <<>>, <<>>, <<>>)
PyNone == PyValue("null", 0, 1, <<>>, <<>>, <<>>)
\* float nan: n names the object, as a nan equals nothing but itself
PyNaN(object) == PyValue("nan", object, 1, <<>>, <<>>, <<>>)
\* NaN of json.decoder, the object every NaN of a file is decoded to
DecoderNaN == PyNaN(0)

\* key in d, d[key]
HasKey(dict, key) == key \in Range(dict.keys)
Get(dict, key) ==
    dict.items[CHOOSE j \in DOMAIN dict.keys : dict.keys[j] = key]

\* bool(value)
Truthy(value) ==
    CASE value.t \in {"dict", "list"} -> value.items # <<>>
      [] value.t = "str" -> value.s # <<>>
      [] value.t = "null" -> FALSE
      [] value.t = "nan" -> TRUE
      [] OTHER -> value.n # 0

(***************************************************************************)
(* validate_config: TRUE when no check raises.                             *)
(***************************************************************************)
\* float(value): ok is FALSE on TypeError or ValueError; nan for "nan"
float(value) ==
    CASE value.t \in {"int", "float", "bool"} ->
            [ok |-> TRUE, nan |-> FALSE, n |-> value.n, d |-> value.d]
      [] value.t = "nan" -> [ok |-> TRUE, nan |-> TRUE, n |-> 0, d |-> 1]
      [] value.t = "str" /\ Lower(Strip(value.s)) = <<"n", "a", "n">> ->
            [ok |-> TRUE, nan |-> TRUE, n |-> 0, d |-> 1]
      [] value.t = "str" ->
            [ok |-> ParseNumber(value.s).ok, nan |-> FALSE,
             n |-> ParseNumber(value.s).n, d |-> ParseNumber(value.s).d]
      [] OTHER -> [ok |-> FALSE, nan |-> FALSE, n |-> 0, d |-> 1]

\* width = float(...); if width <= 0: raise; a comparison with nan is False
WidthPasses(width) == width.ok /\ ~(~width.nan /\ width.n <= 0)

Alignments ==
    {<<"l", "e", "f", "t">>, <<"c", "e", "n", "t", "e", "r">>,
     <<"r", "i", "g", "h", "t">>}

\* alignment not in ["left", "center", "right"]
AlignmentPasses(alignment) ==
    alignment.t = "str" /\ alignment.s \in Alignments

validate_column_config(col_config) ==
    /\ col_config.t = "dict"
    /\ HasKey(col_config, "name")
    /\ Get(col_config, "name").t = "str"
    /\ Strip(Get(col_config, "name").s) # <<>>
    /\ HasKey(col_config, "source_column")
       => Get(col_config, "source_column").t = "str"
    /\ HasKey(col_config, "alignment")
       => AlignmentPasses(Get(col_config, "alignment"))
    /\ HasKey(col_config, "width")
       => WidthPasses(float(Get(col_config, "width")))
    /\ HasKey(col_config, "formatting")
       => Get(col_config, "formatting").t = "dict"

validate_output_columns(cfg) ==
    /\ HasKey(cfg, "output_columns")
    /\ Get(cfg, "output_columns").t = "list"
    /\ Get(cfg, "output_columns").items # <<>>
    /\ \A i \in DOMAIN Get(cfg, "output_columns").items :
          validate_column_config(Get(cfg, "output_columns").items[i])

\* int(color, 16) raises no ValueError: blanks around, a sign, 0x, then hex
\* digits that single underscores may separate
HexDigits ==
    Digits \cup {"a", "b", "c", "d", "e", "f", "A", "B", "C", "D", "E", "F"}

Unsigned(str) ==
    IF str # <<>> /\ str[1] \in {"+", "-"} THEN Tail(str) ELSE str

HasHexPrefix(str) == Len(str) >= 2 /\ str[1] = "0" /\ str[2] \in {"x", "X"}

HexBody(str, prefixed) ==
    /\ str # <<>>
    /\ \A j \in DOMAIN str : str[j] \in HexDigits \cup {"_"}
    /\ prefixed \/ str[1] # "_"
    /\ str[Len(str)] # "_"
    /\ \A j \in 1..(Len(str) - 1) : ~(str[j] = "_" /\ str[j + 1] = "_")

IntBase16(str) ==
    IF HasHexPrefix(Unsigned(Strip(str)))
    THEN HexBody(Slice(Unsigned(Strip(str)), 3, Len(Unsigned(Strip(str)))),
                 TRUE)
    ELSE HexBody(Unsigned(Strip(str)), FALSE)

is_valid_hex_color(color) ==
    IF color = <<>> THEN TRUE
    ELSE IF Len(color) # 6 THEN FALSE
    ELSE IntBase16(color)

\* the loop over background_color and font_color
ColorPasses(header_config, field) ==
    HasKey(header_config, field)
    => /\ Get(header_config, field).t = "str"
       /\ Get(header_config, field).s # <<>>
          => is_valid_hex_color(Get(header_config, field).s)

validate_header_formatting(header_config) ==
    /\ header_config.t = "dict"
    /\ HasKey(header_config, "bold") => Get(header_config, "bold").t = "bool"
    /\ ColorPasses(header_config, "background_color")
    /\ ColorPasses(header_config, "font_color")
    /\ HasKey(header_config, "alignment")
       => AlignmentPasses(Get(header_config, "alignment"))

\* str.upper()
UpperChar(c) ==
    IF \E j \in DOMAIN LowerSeq : LowerSeq[j] = c
    THEN UpperSeq[CHOOSE j \in DOMAIN LowerSeq : LowerSeq[j] = c]
    ELSE c
Upper(str) == [j \in DOMAIN str |-> UpperChar(str[j])]

\* re.match(r'^[A-Z]+\d+$', text): letters up to position p, digits after it;
\* $ also matches before a newline that ends the text
MatchesCellRef(text) ==
    \E p \in 1..(Len(text) - 1) :
       /\ \A j \in 1..p : text[j] \in Uppers
       /\ \E q \in {Len(text), Len(text) - 1} :
             /\ q > p
             /\ \A j \in (p + 1)..q : text[j] \in Digits
             /\ q < Len(text) => text[Len(text)] = "\n"

\* the structured form of freeze_panes
FreezeDictPasses(freeze_panes) ==
    /\ HasKey(freeze_panes, "freeze_header")
       => Get(freeze_panes, "freeze_header").t = "bool"
    /\ HasKey(freeze_panes, "freeze_columns")
       => /\ Get(freeze_panes, "freeze_columns").t = "list"
          /\ \A col_name \in Range(Get(freeze_panes, "freeze_columns").items) :
                col_name.t = "str"

\* if freeze_panes: ...
FreezePanesPasses(freeze_panes) ==
    Truthy(freeze_panes)
    => CASE freeze_panes.t = "str" -> MatchesCellRef(Upper(freeze_panes.s))
         [] freeze_panes.t = "dict" -> FreezeDictPasses(freeze_panes)
         [] OTHER -> FALSE

validate_general_settings(general_config) ==
    /\ general_config.t = "dict"
    /\ HasKey(general_config, "auto_fit_columns")
       => Get(general_config, "auto_fit_columns").t = "bool"
    /\ HasKey(general_config, "freeze_panes")
       => FreezePanesPasses(Get(general_config, "freeze_panes"))

validate_void_settings(void_config) ==
    /\ void_config.t = "dict"
    /\ HasKey(void_config, "enabled") => Get(void_config, "enabled").t = "bool"
    /\ HasKey(void_config, "zero_columns")
       => /\ Get(void_config, "zero_columns").t = "list"
          /\ \A col_name \in Range(Get(void_config, "zero_columns").items) :
                col_name.t = "str"

validate_config(cfg) ==
    /\ cfg.t = "dict"
    /\ validate_output_columns(cfg)
    /\ HasKey(cfg, "header_formatting")
       => validate_header_formatting(Get(cfg, "header_formatting"))
    /\ HasKey(cfg, "general_settings")
       => validate_general_settings(Get(cfg, "general_settings"))
    /\ HasKey(cfg, "void") => validate_void_settings(Get(cfg, "void"))

(***************************************************************************)
(* json.dump and json.load.  The file is modelled as the sequence of the   *)
(* tokens of its JSON text (the blanks of the pretty printing left out):   *)
(* punctuation, keys, strings with their escapes, numbers and literals.    *)
(***************************************************************************)
Token(kind, str) == [k |-> kind, s |-> str]

RECURSIVE JsonEscape(_)
\* the text of a string between its quotes: " and \ are escaped
JsonEscape(str) ==
    IF str = <<>> THEN <<>>
    ELSE (IF Head(str) \in {"\"", "\\"} THEN <<"\\", Head(str)>>
          ELSE <<Head(str)>>)
         \o JsonEscape(Tail(str))

RECURSIVE JsonUnescape(_)
JsonUnescape(str) ==
    IF str = <<>> THEN <<>>
    ELSE IF Head(str) = "\\" /\ Len(str) >= 2
         THEN <<str[2]>> \o JsonUnescape(Slice(str, 3, Len(str)))
    ELSE <<Head(str)>> \o JsonUnescape(Tail(str))

\* the token of a value that is no container
ScalarToken(value) ==
    CASE value.t = "str" -> Token("str", JsonEscape(value.s))
      [] value.t = "int" -> Token("num", IntStr(value.n))
      [] value.t = "float" -> Token("num", FloatStr(value.n, value.d))
      [] value.t = "bool" ->
            Token("lit", IF value.n = 1 THEN <<"true">> ELSE <<"false">>)
      [] value.t = "nan" -> Token("lit", <<"NaN">>)
      [] OTHER -> Token("lit", <<"null">>)

\* the concatenation of the token sequences of parts
RECURSIVE Flatten(_)
Flatten(parts) ==
    IF Len(parts) = 0 THEN <<>> ELSE Head(parts) \o Flatten(Tail(parts))

\* the separator before item j of a container
Separator(j) == IF j = 1 THEN <<>> ELSE <<Token("punct", <<",">>)>>

\* { key : value , ... } and [ value , ... ], each value encoded in turn
RECURSIVE Encode(_)
Encode(value) ==
    CASE value.t = "dict" ->
            <<Token("punct", <<"{">>)>>
            \o Flatten([j \in 1..Len(value.items) |->
                           Separator(j)
                           \o <<Token("key", <<value.keys[j]>>), Token("punct", <<":">>)>>
                           \o Encode(value.items[j])])
            \o <<Token("punct", <<"}">>)>>
      [] value.t = "list" ->
            <<Token("punct", <<"[">>)>>
            \o Flatten([j \in 1..Len(value.items) |->
                           Separator(j) \o Encode(value.items[j])])
            \o <<Token("punct", <<"]">>)>>
      [] OTHER -> <<ScalarToken(value)>>

\* json.dump(config, f, indent=4, ensure_ascii=False)
json_dump(value) == Encode(value)

\* the value of a number or literal token
ScalarValue(token) ==
    CASE token.k = "str" -> PyStr(JsonUnescape(token.s))
      [] token.k = "num" /\ "." \in Range(token.s) ->
            PyFloat(ParsedFloat(ParseNumber(token.s)).n,
                    ParsedFloat(ParseNumber(token.s)).d)
      [] token.k = "num" -> PyInt(ParseNumber(token.s).n)
      [] token.s = <<"true">> -> PyBool(TRUE)
      [] token.s = <<"false">> -> PyBool(FALSE)
      [] token.s = <<"NaN">> -> DecoderNaN
      [] OTHER -> PyNone

\* The decoder finds the values of a container by the brackets of the text.
IsOpen(token) == token.k = "punct" /\ token.s \in {<<"{">>, <<"[">>}
IsClose(token) == token.k = "punct" /\ token.s \in {<<"}">>, <<"]">>}
IsValueStart(token) == token.k \in {"str", "num", "lit"} \/ IsOpen(token)

\* the number of containers that are open before position p
Level(tokens, p) ==
    Cardinality({q \in 1..(p - 1) : IsOpen(tokens[q])})
    - Cardinality({q \in 1..(p - 1) : IsClose(tokens[q])})

\* the bracket that closes the container opened at position p
ClosingOf(tokens, p) ==
    Min({q \in (p + 1)..Len(tokens) :
            IsClose(tokens[q]) /\ Level(tokens, q) = Level(tokens, p) + 1})

\* where the values of the container opened at position p start
ValueStarts(tokens, p) ==
    {q \in (p + 1)..(ClosingOf(tokens, p) - 1) :
        IsValueStart(tokens[q]) /\ Level(tokens, q) = Level(tokens, p) + 1}

\* the j-th of them
ValueStart(tokens, p, j) ==
    CHOOSE q \in ValueStarts(tokens, p) :
        Cardinality({r \in ValueStarts(tokens, p) : r < q}) = j - 1

\* the value that starts at position p; the key of a value of a dict is two
\* tokens before it
RECURSIVE ValueAt(_, _)
ValueAt(tokens, p) ==
    CASE tokens[p].k = "punct" /\ tokens[p].s = <<"{">> ->
            PyDict([j \in 1..Cardinality(ValueStarts(tokens, p)) |->
                       tokens[ValueStart(tokens, p, j) - 2].s[1]],
                   [j \in 1..Cardinality(ValueStarts(tokens, p)) |->
                       ValueAt(tokens, ValueStart(tokens, p, j))])
      [] tokens[p].k = "punct" /\ tokens[p].s = <<"[">> ->
            PyList([j \in 1..Cardinality(ValueStarts(tokens, p)) |->
                       ValueAt(tokens, ValueStart(tokens, p, j))])
      [] OTHER -> ScalarValue(tokens[p])

\* json.load(f)
json_load(tokens) == IF tokens = <<>> THEN PyNone ELSE ValueAt(tokens, 1)

(***************************************************************************)
(* save_config and load_config: what they raise, write and return.         *)
(***************************************************************************)
\* no file at config_path
NoFile == <<>>

\* a save that writes the file before it validates
save_config_then_validate(cfg, file) ==
    [raised |-> ~validate_config(cfg), file |-> json_dump(cfg)]

\* validate_config(config), then json.dump into the file
save_config(cfg, file) ==
    IF validate_config(cfg)
    THEN [raised |-> FALSE, file |-> json_dump(cfg)]
    ELSE [raised |-> TRUE, file |-> file]

\* config_path.exists(), json.load, validate_config(config), return config
load_config(file) ==
    IF file = NoFile THEN [raised |-> TRUE, config |-> PyNone]
    ELSE IF validate_config(json_load(file))
         THEN [raised |-> FALSE, config |-> json_load(file)]
    ELSE [raised |-> TRUE, config |-> PyNone]

\* self.validate_config(config)
ValidateConfig ==
    /\ pc = "start"
    /\ raised' = ~validate_config(config)
    /\ pc' = "validated"
    /\ UNCHANGED <<auxVars, config_file, loaded, input_df, config, filtered_input_df,
                   output_data, result_df, refiltered, k>>

\* save_config(config, config_path)
SaveConfig ==
    /\ pc = "start"
    /\ raised' = save_config(config, config_file).raised
    /\ config_file' = save_config(config, config_file).file
    /\ pc' = "saved"
    /\ UNCHANGED <<auxVars, loaded, input_df, config, filtered_input_df, output_data,
                   result_df, refiltered, k>>

\* load_config(config_path), of the file as found or as just saved
LoadConfig ==
    /\ pc \in {"start", "saved"}
    /\ ~raised
    /\ raised' = load_config(config_file).raised
    /\ loaded' = load_config(config_file).config
    /\ pc' = IF pc = "start" THEN "loaded" ELSE "reloaded"
    /\ UNCHANGED <<auxVars, config_file, input_df, config, filtered_input_df,
                   output_data, result_df, refiltered, k>>

(***************************************************************************)
(* The inputs of the model: column names, formulas, tables and configs.    *)
(***************************************************************************)
A == <<"A">>
B == <<"B">>
C == <<"C">>
Gross == <<"G","r","o","s","s">>
Net == <<"N","e","t">>
Tax == <<"T","a","x">>
Total == <<"T","o","t","a","l">>
Double == <<"D","o","u","b","l","e">>
Blank == <<"B","l","a","n","k">>
Copy == <<"C","o","p","y">>
NetPay == <<"N","e","t"," ","P","a","y">>

\* "=" + left + " " + op + " " + right
Formula(left, op, right) == <<"=">> \o left \o <<" ", op, " ">> \o right
Two == <<"2">>

\* the tables with the given columns, a RangeIndex and at most MaxRows rows,
\* the cells of column j drawn from cells[j]
Tables(columns, cells) ==
    UNION {{DataFrame(columns, [r \in 1..n |-> r - 1], data) :
              data \in [1..n -> {row \in [DOMAIN columns -> UNION Range(cells)] :
                                    \A j \in DOMAIN columns : row[j] \in cells[j]}]} :
           n \in 0..MaxRows}

\* a table given by its rows of integers
IntTable(columns, rows) ==
    DataFrame(columns, [r \in DOMAIN rows |-> r - 1],
              [r \in DOMAIN rows |-> [j \in DOMAIN rows[r] |-> IntCell(rows[r][j])]])

IntCells == {IntCell(v) : v \in 0..MaxVal}
\* the least and the greatest of them
EndCells == {IntCell(0), IntCell(MaxVal)}
TextCells == {NanCell, StrCell(<<"x", "*">>), StrCell(<<"0">>)}

\* A=[1,2], B=[3,4]
SumExample == IntTable(<<A, B>>, <<<<1, 3>>, <<2, 4>>>>)
\* columns A,B and rows [(0,0),(0,1),(1,0)]
VoidExample == IntTable(<<A, B>>, <<<<0, 0>>, <<0, 1>>, <<1, 0>>>>)

\* the void settings tried on a table with columns c1, c2
Voids(c1, c2) ==
    {[enabled |-> e, zero_columns |-> z] :
        e \in BOOLEAN, z \in {<<>>, <<c1>>, <<c1, c2>>, <<Tax, c2>>, <<Tax>>}}

\* formula rules over the columns c1, c2
FormulaRules(c1, c2) ==
    {<<Rule(Total, Formula(c1, "+", c2), FALSE),
       Rule(Double, Formula(Total, "*", Two), FALSE)>>,
     <<Rule(Total, Formula(c1, "-", c2), FALSE)>>,
     <<Rule(Total, Formula(<<"\"">> \o c1 \o <<"\"">>, "+",
                           <<"\"">> \o c2 \o <<"\"">>), FALSE)>>,
     <<Rule(Total, Formula(c1, "/", c2), FALSE), Rule(Blank, <<>>, FALSE),
       Rule(Copy, c2, FALSE)>>}

\* formulas that try the guard of the evaluation: a literal with one
\* underscore, one with two, and a quoted name that holds the name of a
\* column after a name that is no column
GuardRules ==
    {<<Rule(Total, Formula(<<"1", "_", "0">>, "+", Net), FALSE)>>,
     <<Rule(Total, Formula(<<"1", "_", "_", "0">>, "+", Net), FALSE)>>,
     <<Rule(Total, Formula(<<"\"">> \o Tax \o <<"/">> \o Net \o <<"\"">>,
                           "*", Two), FALSE)>>}

GuardInputs ==
    {<<df, [void |-> [enabled |-> FALSE, zero_columns |-> <<>>],
            output_columns |-> rules, column_order |-> <<>>]>> :
        df \in Tables(<<Gross, Net>>, <<EndCells, IntCells>>),
        rules \in GuardRules}

\* formulas whose word is the name of the second column, that name in
\* another case, a part of the name of the first column, and the name of an
\* output column built before
PriorityRules ==
    {<<Rule(Total, Formula(Net, "*", Two), FALSE)>>,
     <<Rule(Total, Formula(Lower(Net), "*", Two), FALSE)>>,
     <<Rule(Total, Formula(<<"P", "a", "y">>, "*", Two), FALSE)>>,
     <<Rule(Tax, Formula(Net, "+", <<"1">>), FALSE),
       Rule(Total, Formula(Tax, "*", Two), FALSE)>>}

PriorityInputs ==
    {<<df, [void |-> [enabled |-> FALSE, zero_columns |-> <<>>],
            output_columns |-> rules, column_order |-> <<>>]>> :
        df \in Tables(<<NetPay, Net>>, <<IntCells, EndCells>>),
        rules \in PriorityRules}

FormulaInputs(c1, c2) ==
    {<<df, [void |-> v, output_columns |-> rules, column_order |-> <<>>]>> :
        df \in Tables(<<c1, c2>>, <<IntCells, EndCells>>)
               \cup (IF c1 = A THEN {SumExample} ELSE {}),
        v \in {[enabled |-> FALSE, zero_columns |-> <<>>],
               [enabled |-> TRUE, zero_columns |-> <<c1, c2>>]},
        rules \in FormulaRules(c1, c2)}

\* blank, direct and unknown direct rules; a rule with a blank name; a name
\* used twice
CopyRules ==
    {<<Rule(Blank, <<>>, FALSE), Rule(Copy, Gross, FALSE),
       Rule(Tax, Tax, FALSE)>>,
     <<Rule(Copy, Net, FALSE), Rule(<<" ">>, Gross, FALSE),
       Rule(Gross, Lower(Gross), FALSE), Rule(<<" ">> \o Net, Gross \o <<" ">>, TRUE)>>,
     <<Rule(Copy, Gross, TRUE), Rule(Blank, <<>>, TRUE), Rule(Copy, Net, FALSE)>>}

CopyInputs ==
    {<<df, [void |-> v, output_columns |-> rules, column_order |-> <<>>]>> :
        df \in Tables(<<Gross, Net>>,
                      <<EndCells \cup {NanCell, StrCell(<<"x", "*">>)}, EndCells>>),
        v \in {[enabled |-> FALSE, zero_columns |-> <<Gross>>],
               [enabled |-> TRUE, zero_columns |-> <<Gross, Net>>]},
        rules \in CopyRules}

\* output_columns = [A, B, C] and the column orders tried on it
OrderRules ==
    {<<Rule(A, A, FALSE), Rule(B, <<>>, FALSE), Rule(C, B, FALSE)>>,
     <<Rule(C, A, FALSE), Rule(A, <<>>, FALSE)>>}

ColumnOrders ==
    {<<>>, <<C, A>>, <<B>>, <<Tax, C>>, <<C, B, A>>, <<A, A>>, <<Tax>>}

OrderInputs ==
    {<<df, [void |-> [enabled |-> FALSE, zero_columns |-> <<>>],
            output_columns |-> rules, column_order |-> order]>> :
        df \in {SumExample, VoidExample},
        rules \in OrderRules,
        order \in ColumnOrders}

VoidInputs ==
    {<<df, [void |-> v, output_columns |-> <<>>, column_order |-> <<>>]>> :
        df \in Tables(<<A, B>>, <<IntCells \cup TextCells, IntCells>>)
               \cup {VoidExample},
        v \in Voids(A, B)}

(***************************************************************************)
(* The specifications.                                                     *)
(***************************************************************************)
\* no workbook
NoSheet == <<>>

\* nothing outside apply_mapping and the ConfigManager has run
ScanIdle ==
    /\ df_raw = <<>>
    /\ idx = 0
    /\ header_row = <<>>

WriteIdle ==
    /\ ws = NoSheet
    /\ output_file = NoSheet

BatchIdle ==
    /\ folder = {}
    /\ excel_files = <<>>
    /\ next_file = 1
    /\ output_files = <<>>
    /\ attempts = <<>>
    /\ now = 0
    /\ disk = {}
    /\ mapping_calls = <<>>

DefaultIdle ==
    /\ heap = <<>>
    /\ configs = <<>>
    /\ changes = 0

AuxIdle ==
    /\ ScanIdle
    /\ WriteIdle
    /\ BatchIdle
    /\ DefaultIdle

Start(inputs) ==
    /\ \E in \in inputs : input_df = in[1] /\ config = in[2]
    /\ filtered_input_df = NoTable
    /\ output_data = EmptyDict
    /\ result_df = NoResult
    /\ refiltered = NoTable
    /\ k = 1
    /\ raised = FALSE
    /\ config_file = NoFile
    /\ loaded = PyNone
    /\ AuxIdle
    /\ pc = "start"

\* apply_mapping, on each family of inputs
Init ==
    \/ Start(FormulaInputs(A, B))
    \/ Start(FormulaInputs(Gross, Net))
    \/ Start(GuardInputs)
    \/ Start(PriorityInputs)
    \/ Start(CopyInputs)
    \/ Start(OrderInputs)

Next ==
    \/ ApplyVoidFiltering
    \/ SkipRule
    \/ MapFormula
    \/ MapBlank
    \/ MapDirect
    \/ Assemble

Spec == Init /\ [][Next]_vars

\* _apply_void_filtering, applied once and then to its own result
InitVoid == Start(VoidInputs)

NextVoid ==
    \/ ApplyVoidFiltering
    \/ Refilter

SpecVoid == InitVoid /\ [][NextVoid]_vars

(***************************************************************************)
(* The configs and files that validate_config, save_config and load_config *)
(* are run on.                                                             *)
(***************************************************************************)
NameA == PyStr(<<"A">>)
NameB == PyStr(<<"B">>)

\* a rule with a name and one more field
RuleWith(name, key, value) == PyDict(<<"name", key>>, <<name, value>>)
ColumnsConfig(rules) == PyDict(<<"output_columns">>, <<PyList(rules)>>)
OneRule == PyList(<<PyDict(<<"name">>, <<NameA>>)>>)

NameValues ==
    {NameA, PyStr(<<>>), PyStr(<<" ", " ">>), PyInt(1), PyNone,
     PyStr(<<"a", "\"", "\\", "b">>)}

AlignmentValues ==
    {PyStr(a) : a \in Alignments}
    \cup {PyStr(<<"d", "i", "a", "g", "o", "n", "a", "l">>), PyNone}

WidthValues ==
    {PyInt(15), PyInt(0), PyInt(-1), PyFloat(5, 2), PyFloat(-1, 2),
     PyStr(<<"1", "2">>), PyStr(<<"a", "b", "c">>), PyStr(<<"n", "a", "n">>),
     PyNaN(1), PyBool(TRUE), PyBool(FALSE), PyNone}

ColorValues ==
    {PyStr(<<>>), PyStr(<<"F", "F", "F", "F", "F", "F">>),
     PyStr(<<"0", "0", "a", "a", "f", "f">>), PyStr(<<"1", "2", "a", "b">>),
     PyStr(<<"G", "G", "G", "G", "G", "G">>),
     PyStr(<<"#", "F", "F", "F", "F", "F">>),
     PyStr(<<"1", "2", "3", "4", "5", "6", "7">>),
     PyStr(<<"0", "x", "1", "2", "a", "b">>),
     PyStr(<<"+", "1", "2", "3", "4", "5">>),
     PyStr(<<"1", "2", "_", "3", "4", "5">>),
     PyStr(<<" ", "1", "2", "3", "4", " ">>),
     PyStr(<<"1", "2", "_", "_", "3", "4">>), PyInt(123456)}

FreezeValues ==
    {PyStr(<<"A", "2">>), PyStr(<<"a", "2">>), PyStr(<<"A", "B", "1", "2">>),
     PyStr(<<"2", "A">>), PyStr(<<"A">>), PyStr(<<"A", "2", "\n">>),
     PyStr(<<>>), PyInt(0), PyInt(5), PyBool(FALSE), PyBool(TRUE), PyNone,
     PyList(<<>>), PyList(<<NameA>>), PyDict(<<>>, <<>>),
     PyDict(<<"freeze_header">>, <<PyBool(TRUE)>>),
     PyDict(<<"freeze_header">>, <<PyInt(1)>>),
     PyDict(<<"freeze_columns">>, <<PyList(<<NameA, NameB>>)>>),
     PyDict(<<"freeze_columns">>, <<PyList(<<NameA, PyInt(1)>>)>>),
     PyDict(<<"freeze_header", "freeze_columns">>,
            <<PyBool(FALSE), PyList(<<>>)>>)}

ConfigInputs ==
    {PyList(<<>>), PyDict(<<>>, <<>>), ColumnsConfig(<<>>),
     ColumnsConfig(<<PyDict(<<>>, <<>>)>>),
     ColumnsConfig(<<PyDict(<<"width">>, <<PyInt(15)>>)>>)}
    \cup {ColumnsConfig(<<PyDict(<<"name">>, <<name>>)>>) : name \in NameValues}
    \cup {ColumnsConfig(<<PyDict(<<"name">>, <<NameA>>),
                         PyDict(<<"name">>, <<name>>)>>) :
             name \in {NameA, NameB}}
    \cup {ColumnsConfig(<<RuleWith(NameA, "alignment", alignment)>>) :
             alignment \in AlignmentValues}
    \cup {ColumnsConfig(<<RuleWith(NameA, "width", width)>>) :
             width \in WidthValues}
    \cup {PyDict(<<"output_columns", "header_formatting">>,
                 <<OneRule, PyDict(<<"background_color">>, <<color>>)>>) :
             color \in ColorValues}
    \cup {PyDict(<<"output_columns", "header_formatting">>,
                 <<OneRule, PyDict(<<"bold", "font_color", "alignment">>,
                                   <<PyBool(TRUE), color, PyStr(a)>>)>>) :
             color \in ColorValues, a \in Alignments}
    \cup {PyDict(<<"output_columns", "general_settings">>,
                 <<OneRule, PyDict(<<"freeze_panes">>, <<freeze_panes>>)>>) :
             freeze_panes \in FreezeValues}
    \cup {PyDict(<<"output_columns", "void">>,
                 <<OneRule, PyDict(<<"enabled", "zero_columns">>,
                                   <<enabled, PyList(<<NameA>>)>>)>>) :
             enabled \in {PyBool(TRUE), PyInt(1)}}

\* what is at config_path before the operation: nothing, a config saved
\* earlier, or a file written by hand
FileInputs ==
    {NoFile, json_dump(ColumnsConfig(<<PyDict(<<"name">>, <<NameB>>)>>)),
     json_dump(ColumnsConfig(<<>>)),
     json_dump(ColumnsConfig(<<RuleWith(NameB, "width", PyNaN(1))>>))}

InitConfig ==
    /\ config \in ConfigInputs
    /\ config_file \in FileInputs
    /\ loaded = PyNone
    /\ raised = FALSE
    /\ pc = "start"
    /\ input_df = NoTable
    /\ filtered_input_df = NoTable
    /\ output_data = EmptyDict
    /\ result_df = NoResult
    /\ refiltered = NoTable
    /\ k = 1
    /\ AuxIdle

NextConfig ==
    \/ ValidateConfig
    \/ SaveConfig
    \/ LoadConfig

SpecConfig == InitConfig /\ [][NextConfig]_vars

(***************************************************************************)
(* _find_header_row: the search for the header row of an .xls sheet.       *)
(***************************************************************************)
header_keywords ==
    <<<<"n","a","m","e">>,
     <<"e","m","p","l","o","y","e","e">>,
     <<"p","a","y">>,
     <<"g","r","o","s","s">>,
     <<"n","e","t">>,
     <<"d","a","t","e">>,
     <<"p","e","r","i","o","d">>,
     <<"a","m","o","u","n","t">>,
     <<"s","a","l","a","r","y">>,
     <<"w","a","g","e">>,
     <<"h","o","u","r","s">>,
     <<"r","a","t","e">>,
     <<"d","e","d","u","c","t","i","o","n">>,
     <<"t","a","x">>,
     <<"s","o","c","i","a","l">>,
     <<"s","e","c","u","r","i","t","y">>,
     <<"m","e","d","i","c","a","r","e">>,
     <<"f","e","d","e","r","a","l">>,
     <<"s","t","a","t","e">>>>

\* if idx > 20: break
ScanLimit == 20

\* ' '.join(parts)
RECURSIVE JoinSpace(_)
JoinSpace(parts) ==
    IF parts = <<>> THEN <<>>
    ELSE IF Len(parts) = 1 THEN parts[1]
    ELSE parts[1] \o <<" ">> \o JoinSpace(Tail(parts))

\* [cell for cell in row if pd.notna(cell)]
NotNaCells(row) == SelectSeq(row, LAMBDA cell : cell.t # "nan")

\* ' '.join([str(cell).lower() for cell in row if pd.notna(cell)])
row_str(row) ==
    JoinSpace([j \in 1..Len(NotNaCells(row)) |-> Lower(Str(NotNaCells(row)[j]))])

\* sum(1 for keyword in header_keywords if keyword in row_str)
matches(row) ==
    Cardinality({j \in DOMAIN header_keywords :
                    Contains(row_str(row), header_keywords[j])})

\* the row of the loop is no header row: the loop goes on
ScanRow ==
    /\ pc = "scan"
    /\ idx < Len(df_raw)
    /\ ~(idx > ScanLimit)
    /\ ~(matches(df_raw[idx + 1]) >= 3)
    /\ idx' = idx + 1
    /\ UNCHANGED <<df_raw, header_row, pc, writeVars, batchVars, defaultVars, mappingVars,
                   configVars>>

\* if matches >= 3: return idx
FoundHeader ==
    /\ pc = "scan"
    /\ idx < Len(df_raw)
    /\ ~(idx > ScanLimit)
    /\ matches(df_raw[idx + 1]) >= 3
    /\ header_row' = <<idx>>
    /\ pc' = "returned"
    /\ UNCHANGED <<df_raw, idx, writeVars, batchVars, defaultVars, mappingVars, configVars>>

\* the rows are exhausted, or the break: return None
ScanEnd ==
    /\ pc = "scan"
    /\ (idx >= Len(df_raw) \/ idx > ScanLimit)
    /\ header_row' = <<>>
    /\ pc' = "returned"
    /\ UNCHANGED <<df_raw, idx, writeVars, batchVars, defaultVars, mappingVars, configVars>>

(***************************************************************************)
(* The sheets _find_header_row is run on.                                  *)
(***************************************************************************)
\* the number of rows of a sheet
RawRows == 22

\* a row with the three keywords employee, gross, net
HeaderCells == <<StrCell(<<"E","m","p","l","o","y","e","e">>),
                 StrCell(<<"G","R","O","S","S">>), StrCell(Net)>>
\* a row with the two keywords pay, date
WeakCells == <<StrCell(<<"P","a","y">>), NanCell, StrCell(<<"D","a","t","e">>)>>
\* a row of data
DataCells == <<StrCell(<<"x", "*">>), IntCell(MaxVal), NanCell>>

\* a sheet with header rows at the indices p and q (RawRows: nowhere)
Sheet(p, q, filler) ==
    [r \in 1..RawRows |-> IF r - 1 \in {p, q} THEN HeaderCells ELSE filler]

RawSheets ==
    {Sheet(p, q, filler) :
        p \in 0..RawRows, q \in 0..RawRows, filler \in {WeakCells, DataCells}}

\* apply_mapping has not run
MappingIdle ==
    /\ input_df = NoTable
    /\ filtered_input_df = NoTable
    /\ output_data = EmptyDict
    /\ result_df = NoResult
    /\ refiltered = NoTable
    /\ k = 1
    /\ raised = FALSE

\* the ConfigManager has not run
ConfigIdle ==
    /\ config_file = NoFile
    /\ loaded = PyNone

InitHeader ==
    /\ df_raw \in RawSheets
    /\ idx = 0
    /\ header_row = <<>>
    /\ pc = "scan"
    /\ WriteIdle
    /\ BatchIdle
    /\ DefaultIdle
    /\ config = PyNone
    /\ MappingIdle
    /\ ConfigIdle

NextHeader ==
    \/ ScanRow
    \/ FoundHeader
    \/ ScanEnd

SpecHeader == InitHeader /\ [][NextHeader]_vars

(***************************************************************************)
(* save_formatted_output: the sheet df.to_excel writes and the formatting  *)
(* apply_excel_formatting gives it.  A sheet holds, for each of its        *)
(* columns, the style of the header cell, the width of the column (<<>>:   *)
(* not set) and the alignment ("": not set) and number format of its data  *)
(* cells, and the top left cell of its frozen pane (<<>>: no pane).        *)
(***************************************************************************)
General == <<"G","e","n","e","r","a","l">>

\* the header cells as pandas writes them
PandasHeader ==
    [bold |-> TRUE, font_color |-> <<>>, background_color |-> <<>>,
     alignment |-> "center"]

\* df.to_excel(output_path, index=False, engine='openpyxl')
to_excel(df) ==
    [columns |-> df.columns,
     rows |-> IF df.columns = <<>> THEN 0 ELSE Len(df.cols[1]),
     header |-> [j \in DOMAIN df.columns |-> PandasHeader],
     width |-> [j \in DOMAIN df.columns |-> <<>>],
     alignment |-> [j \in DOMAIN df.columns |-> ""],
     number_format |-> [j \in DOMAIN df.columns |-> General],
     freeze_panes |-> <<>>]

\* Font, PatternFill and Alignment of the header row
HeaderStyle(header_config) ==
    [bold |-> header_config.bold, font_color |-> header_config.font_color,
     background_color |-> header_config.background_color,
     alignment |-> header_config.alignment]

\* for col_num in range(1, len(df.columns) + 1): font, fill, alignment
format_headers(sheet, df, cfg) ==
    [sheet EXCEPT !.header =
        [j \in DOMAIN df.columns |-> HeaderStyle(cfg.header_formatting)]]

\* min(max(max_width + 2, 8), 50), max_width over the name and the cells
AutoFitWidth(df, col_idx) ==
    Min({50,
         Max({8,
              2 + Max({Len(df.columns[col_idx])}
                      \cup {Len(Str(df.cols[col_idx][r])) :
                               r \in 1..Min({Len(df.cols[col_idx]), 100})})})})

\* the width column col_idx gets from the rule at the same position
ColumnWidth(df, cfg, col_idx) ==
    IF cfg.general_settings.auto_fit_columns
    THEN AutoFitWidth(df, col_idx)
    ELSE cfg.output_columns[col_idx].width

\* cell.number_format = formatting["number_format"]
NumberFormat(col_config, old) ==
    IF HasKey(col_config.formatting, "number_format")
    THEN Get(col_config.formatting, "number_format").s
    ELSE old

\* the body of the loop: the rule at position col_idx of output_columns
\* formats column col_idx of the sheet
FormatColumn(sheet, df, cfg, col_idx) ==
    [sheet EXCEPT
        !.width[col_idx] = <<ColumnWidth(df, cfg, col_idx)>>,
        !.alignment[col_idx] =
            IF sheet.rows > 0 THEN cfg.output_columns[col_idx].alignment ELSE @,
        !.number_format[col_idx] =
            IF sheet.rows > 0 THEN NumberFormat(cfg.output_columns[col_idx], @)
            ELSE @]

\* for col_idx, col_config in enumerate(output_columns, 1), with its break
RECURSIVE FormatColumnsFrom(_, _, _, _)
FormatColumnsFrom(sheet, df, cfg, col_idx) ==
    IF col_idx > Len(cfg.output_columns) \/ col_idx > Len(df.columns) THEN sheet
    ELSE FormatColumnsFrom(FormatColumn(sheet, df, cfg, col_idx), df, cfg, col_idx + 1)

format_columns(sheet, df, cfg) == FormatColumnsFrom(sheet, df, cfg, 1)

\* ws.freeze_panes = value raises: the setter of the worksheet reads a cell
\* coordinate and takes a string only
FreezeRaises(value) == ~(value.t = "str" /\ MatchesCellRef(value.s))

\* df.to_excel and load_workbook
ToExcel ==
    /\ pc = "done"
    /\ ~raised
    /\ output_file' = to_excel(result_df)
    /\ ws' = to_excel(result_df)
    /\ pc' = "format_headers"
    /\ UNCHANGED <<mappingVars, configVars, scanVars, batchVars, defaultVars>>

FormatHeaders ==
    /\ pc = "format_headers"
    /\ ws' = format_headers(ws, result_df, config)
    /\ pc' = "format_columns"
    /\ UNCHANGED <<output_file, mappingVars, configVars, scanVars, batchVars, defaultVars>>

FormatColumns ==
    /\ pc = "format_columns"
    /\ ws' = format_columns(ws, result_df, config)
    /\ pc' = "general_settings"
    /\ UNCHANGED <<output_file, mappingVars, configVars, scanVars, batchVars, defaultVars>>

\* _apply_general_settings returns and wb.save(output_path) writes the sheet
ApplyGeneralSettings ==
    /\ pc = "general_settings"
    /\ Truthy(config.general_settings.freeze_panes)
       => ~FreezeRaises(config.general_settings.freeze_panes)
    /\ ws' = IF Truthy(config.general_settings.freeze_panes)
             THEN [ws EXCEPT !.freeze_panes = config.general_settings.freeze_panes.s]
             ELSE ws
    /\ output_file' = ws'
    /\ pc' = "saved"
    /\ UNCHANGED <<mappingVars, configVars, scanVars, batchVars, defaultVars>>

\* the assignment of freeze_panes raises: apply_excel_formatting re-raises
\* before wb.save, save_formatted_output logs a warning and goes on
FormattingFailed ==
    /\ pc = "general_settings"
    /\ Truthy(config.general_settings.freeze_panes)
    /\ FreezeRaises(config.general_settings.freeze_panes)
    /\ pc' = "saved"
    /\ UNCHANGED <<ws, output_file, mappingVars, configVars, scanVars, batchVars,
                   defaultVars>>

(***************************************************************************)
(* The tables and configs that are written.                                *)
(***************************************************************************)
\* a rule with the keys the column mapper gives it
StyledRule(name, source_column, alignment, width, formatting) ==
    [name |-> name, source_column |-> source_column, remove_asterisks |-> FALSE,
     alignment |-> alignment, width |-> width, formatting |-> formatting]

NoFormatting == PyDict(<<>>, <<>>)
TwoDecimals == PyDict(<<"number_format">>, <<PyStr(<<"0", ".", "0", "0">>)>>)

StyledRules ==
    {<<StyledRule(A, A, "right", 10, TwoDecimals),
       StyledRule(B, B, "center", 20, NoFormatting)>>,
     <<StyledRule(<<>>, A, "right", 10, TwoDecimals),
       StyledRule(B, B, "center", 20, NoFormatting)>>,
     <<StyledRule(Total, Formula(A, "+", B), "right", 10, TwoDecimals),
       StyledRule(Blank, <<>>, "left", 30, NoFormatting)>>}

StyledOrders == {<<>>, <<B, A>>, <<Blank, Total>>}

WhiteOnBlue ==
    [bold |-> TRUE, font_color |-> <<"F","F","F","F","F","F">>,
     background_color |-> <<"3","6","6","0","9","2">>, alignment |-> "center"]

\* what OutputSettings.get_configuration builds
GuiFreezes ==
    {PyDict(<<"freeze_header">>, <<PyBool(TRUE)>>),
     PyDict(<<"freeze_columns">>, <<PyList(<<NameA>>)>>),
     PyDict(<<"freeze_header", "freeze_columns">>, <<PyBool(TRUE), PyList(<<NameA>>)>>)}

WriteFreezes == {PyNone, PyStr(<<"A", "2">>)} \cup GuiFreezes

WriteInputs ==
    {<<df, [void |-> [enabled |-> FALSE, zero_columns |-> <<>>],
            output_columns |-> rules, column_order |-> order,
            header_formatting |-> WhiteOnBlue,
            general_settings |-> [auto_fit_columns |-> fit, freeze_panes |-> freeze]]>> :
        df \in Tables(<<A, B>>, <<EndCells, {IntCell(MaxVal)}>>),
        rules \in StyledRules, order \in StyledOrders,
        fit \in BOOLEAN, freeze \in WriteFreezes}

InitWrite == Start(WriteInputs)

NextWrite ==
    \/ ApplyVoidFiltering
    \/ SkipRule
    \/ MapFormula
    \/ MapBlank
    \/ MapDirect
    \/ Assemble
    \/ ToExcel
    \/ FormatHeaders
    \/ FormatColumns
    \/ ApplyGeneralSettings
    \/ FormattingFailed

SpecWrite == InitWrite /\ [][NextWrite]_vars

(***************************************************************************)
(* process_folder and process_file.  A file of the input folder is its     *)
(* name and whether read_excel_file can read it; a file of the output      *)
(* directory is its path and the input file it was written from.           *)
(***************************************************************************)
Xlsx == <<".","x","l","s","x">>
Xls == <<".","x","l","s">>
Xlsm == <<".","x","l","s","m">>

\* for ext in ['.xlsx', '.xls', '.xlsm']
GlobExtensions == <<Xlsx, Xls, Xlsm>>

\* the name matches the pattern "*" + ext
EndsWith(name, ext) ==
    /\ Len(name) >= Len(ext)
    /\ Slice(name, Len(name) - Len(ext) + 1, Len(name)) = ext

\* folder_path.glob(f"*{ext}"), in the order the directory gives
Glob(files, ext) == Orders({f \in files : EndsWith(f.name, ext)})

\* the lists excel_files can be after the three extends
GlobbedLists(files) ==
    {o1 \o o2 \o o3 : o1 \in Glob(files, GlobExtensions[1]),
                       o2 \in Glob(files, GlobExtensions[2]),
                       o3 \in Glob(files, GlobExtensions[3])}

\* input_file.stem: the name without its last suffix
LastDot(name) == Max({0} \cup {j \in DOMAIN name : name[j] = "."})
Stem(name) ==
    IF LastDot(name) <= 1 THEN name ELSE Slice(name, 1, LastDot(name) - 1)

\* datetime.now().strftime("%Y%m%d_%H%M%S") at second t of the minute
Timestamp(t) ==
    <<"2","0","2","6","1","1","0","1","_","1","2","0","0">>
    \o <<DigitSeq[(t \div 10) + 1], DigitSeq[(t % 10) + 1]>>

\* f"{input_file.stem}_formatted_{timestamp}.xlsx"
output_filename(name, t) ==
    Stem(name) \o <<"_","f","o","r","m","a","t","t","e","d","_">> \o Timestamp(t) \o Xlsx

\* the seconds the clock can show at the next reading
Later(t) == t..Min({t + 1, MaxSeconds})

\* save_formatted_output(output_df, output_path, config)
Written(files, path, name) ==
    {e \in files : e.path # path} \cup {[path |-> path, from |-> name]}

\* the globs find files
GlobFiles ==
    /\ pc = "start"
    /\ \E found \in GlobbedLists(folder) :
          /\ found # <<>>
          /\ excel_files' = found
    /\ pc' = "loop"
    /\ UNCHANGED <<folder, next_file, output_files, attempts, now, disk, mapping_calls,
                   mappingVars, configVars, scanVars, writeVars, defaultVars>>

\* if not excel_files: return []
NoFiles ==
    /\ pc = "start"
    /\ <<>> \in GlobbedLists(folder)
    /\ pc' = "returned"
    /\ UNCHANGED <<batchVars, mappingVars, configVars, scanVars, writeVars, defaultVars>>

\* process_file returns: read_excel_file, apply_mapping(input_df, config),
\* the timestamp, save_formatted_output; output_files.append
FileProcessed ==
    /\ pc = "loop"
    /\ next_file <= Len(excel_files)
    /\ excel_files[next_file].readable
    /\ attempts' = Append(attempts, excel_files[next_file])
    /\ mapping_calls' = Append(mapping_calls, config)
    /\ now' \in Later(now)
    /\ disk' = Written(disk, output_filename(excel_files[next_file].name, now'),
                       excel_files[next_file].name)
    /\ output_files' =
          Append(output_files, output_filename(excel_files[next_file].name, now'))
    /\ next_file' = next_file + 1
    /\ UNCHANGED <<folder, excel_files, pc, mappingVars, configVars, scanVars, writeVars,
                   defaultVars>>

\* a loop that ends at the first file that fails
FileFailedEndsLoop ==
    /\ pc = "loop"
    /\ next_file <= Len(excel_files)
    /\ ~excel_files[next_file].readable
    /\ attempts' = Append(attempts, excel_files[next_file])
    /\ now' \in Later(now)
    /\ pc' = "returned"
    /\ UNCHANGED <<folder, excel_files, next_file, output_files, disk, mapping_calls,
                   mappingVars, configVars, scanVars, writeVars, defaultVars>>

\* read_excel_file raises, process_file re-raises: except ...: continue
FileFailed ==
    /\ pc = "loop"
    /\ next_file <= Len(excel_files)
    /\ ~excel_files[next_file].readable
    /\ attempts' = Append(attempts, excel_files[next_file])
    /\ now' \in Later(now)
    /\ next_file' = next_file + 1
    /\ UNCHANGED <<folder, excel_files, output_files, disk, mapping_calls, pc,
                   mappingVars, configVars, scanVars, writeVars, defaultVars>>

\* return output_files
ReturnFiles ==
    /\ pc = "loop"
    /\ next_file > Len(excel_files)
    /\ pc' = "returned"
    /\ UNCHANGED <<batchVars, mappingVars, configVars, scanVars, writeVars, defaultVars>>

(***************************************************************************)
(* The folders and configs process_folder is run on.  The configs are      *)
(* ones apply_mapping returns a table for: a dict whose output_columns is  *)
(* a list of dicts with a text as name.                                    *)
(***************************************************************************)
FileNames ==
    {<<"a",".","x","l","s","x">>, <<"a",".","x","l","s">>, <<"a",".","x","l","s","m">>,
     <<"b",".","x","l","s","x">>, <<"a",".","t","x","t">>}

InputFiles == {[name |-> name, readable |-> r] : name \in FileNames, r \in BOOLEAN}

Folders ==
    {files \in SUBSET InputFiles :
        /\ Cardinality(files) <= MaxFiles
        /\ \A f, g \in files : f.name = g.name => f = g}

BatchConfigs ==
    {ColumnsConfig(<<PyDict(<<"name">>, <<NameA>>)>>),
     ColumnsConfig(<<>>),
     ColumnsConfig(<<PyDict(<<"name">>, <<NameA>>), PyDict(<<"name">>, <<NameA>>)>>),
     ColumnsConfig(<<RuleWith(NameA, "width", PyInt(0))>>)}

InitBatch ==
    /\ folder \in Folders
    /\ config \in BatchConfigs
    /\ excel_files = <<>>
    /\ next_file = 1
    /\ output_files = <<>>
    /\ attempts = <<>>
    /\ now = 0
    /\ disk = {}
    /\ mapping_calls = <<>>
    /\ pc = "start"
    /\ MappingIdle
    /\ ConfigIdle
    /\ ScanIdle
    /\ WriteIdle
    /\ DefaultIdle

NextBatch ==
    \/ GlobFiles
    \/ NoFiles
    \/ FileProcessed
    \/ FileFailed
    \/ ReturnFiles

SpecBatch == InitBatch /\ [][NextBatch]_vars

(***************************************************************************)
(* DEFAULT_MAPPING_CONFIG and get_default_config.  The heap holds the      *)
(* dicts and lists by identity: object i is heap[i], and an item of an     *)
(* object is a scalar or a reference to another object.                    *)
(***************************************************************************)
Ref(id) == PyValue("ref", id, 1, <<>>, <<>>, <<>>)

\* the module-level dict of config/settings.py and its nested objects
DEFAULT_MAPPING_CONFIG == Ref(1)

DefaultHeap ==
    <<PyDict(<<"output_columns", "header_formatting", "column_name_alignment",
               "general_settings", "void">>,
             <<Ref(2), Ref(5), Ref(6), Ref(7), Ref(8)>>),
      PyList(<<Ref(3)>>),
      PyDict(<<"name", "source_column", "alignment", "width", "formatting">>,
             <<PyStr(<<"C","o","l","u","m","n"," ","1">>), PyStr(<<>>), PyStr(<<"l","e","f","t">>), PyInt(15), Ref(4)>>),
      PyDict(<<>>, <<>>),
      PyDict(<<"bold", "background_color", "font_color", "alignment">>,
             <<PyBool(TRUE), PyStr(<<"3","6","6","0","9","2">>), PyStr(<<"F","F","F","F","F","F">>), PyStr(<<"c","e","n","t","e","r">>)>>),
      PyDict(<<>>, <<>>),
      PyDict(<<"auto_fit_columns">>, <<PyBool(TRUE)>>),
      PyDict(<<"enabled", "zero_columns">>, <<PyBool(FALSE), Ref(9)>>),
      PyList(<<>>)>>

\* d.copy(): a new dict with the items of d, nested objects shared
dict_copy(objects, d) == Append(objects, objects[d.n])

\* the objects a caller reaches from the objects ids in at most n steps
RECURSIVE Reach(_, _, _)
Reach(objects, ids, n) ==
    IF n = 0 THEN ids
    ELSE Reach(objects,
               ids \cup {v.n : v \in {item \in UNION {Range(objects[id].items) : id \in ids} :
                                         item.t = "ref"}},
               n - 1)

Reachable(objects, d) == Reach(objects, {d.n}, Len(objects))

\* obj[key] = value
SetItem(obj, key, value) ==
    IF HasKey(obj, key)
    THEN [obj EXCEPT !.items[CHOOSE j \in DOMAIN obj.keys : obj.keys[j] = key] = value]
    ELSE [obj EXCEPT !.keys = Append(@, key), !.items = Append(@, value)]

\* what a caller stores into a config
StoredValues == {PyBool(FALSE), PyStr(<<"x">>)}
StoredKeys(obj) == Range(obj.keys) \cup {"column_order"}

\* return DEFAULT_MAPPING_CONFIG.copy()
GetDefaultConfig ==
    /\ pc \in {"start", "returned", "changed"}
    /\ Len(configs) < MaxCalls
    /\ heap' = dict_copy(heap, DEFAULT_MAPPING_CONFIG)
    /\ configs' = Append(configs, Ref(Len(heap) + 1))
    /\ pc' = "returned"
    /\ UNCHANGED <<changes, mappingVars, configVars, scanVars, writeVars, batchVars>>

\* the caller assigns to a key of a returned config or of a dict in it
ChangeDict ==
    /\ pc \in {"returned", "changed"}
    /\ changes < MaxChanges
    /\ \E c \in Range(configs) : \E id \in Reachable(heap, c) :
          /\ heap[id].t = "dict"
          /\ \E key \in StoredKeys(heap[id]), value \in StoredValues :
                heap' = [heap EXCEPT ![id] = SetItem(@, key, value)]
    /\ changes' = changes + 1
    /\ pc' = "changed"
    /\ UNCHANGED <<configs, mappingVars, configVars, scanVars, writeVars, batchVars>>

\* the caller appends to a list of a returned config
ChangeList ==
    /\ pc \in {"returned", "changed"}
    /\ changes < MaxChanges
    /\ \E c \in Range(configs) : \E id \in Reachable(heap, c) :
          /\ heap[id].t = "list"
          /\ \E value \in StoredValues :
                heap' = [heap EXCEPT ![id].items = Append(@, value)]
    /\ changes' = changes + 1
    /\ pc' = "changed"
    /\ UNCHANGED <<configs, mappingVars, configVars, scanVars, writeVars, batchVars>>

InitDefault ==
    /\ heap = DefaultHeap
    /\ configs = <<>>
    /\ changes = 0
    /\ pc = "start"
    /\ config = PyNone
    /\ MappingIdle
    /\ ConfigIdle
    /\ ScanIdle
    /\ WriteIdle
    /\ BatchIdle

NextDefault ==
    \/ GetDefaultConfig
    \/ ChangeDict
    \/ ChangeList

SpecDefault == InitDefault /\ [][NextDefault]_vars

(***************************************************************************)
(* What the properties speak of.                                           *)
(***************************************************************************)
\* the rule the loop has just applied and the column it stored
LastRule == config.output_columns[k - 1]
JustApplied == pc = "map" /\ k > 1 /\ ColName(LastRule) # <<>>
LastColumn == DictGet(output_data, ColName(LastRule))

\* apply_mapping has returned its table
Returned == pc = "done" /\ ~raised

\* a column of the returned table
ResultColumn(name) ==
    result_df.cols[CHOOSE j \in DOMAIN result_df.columns :
                      result_df.columns[j] = name]

\* rule i names a column that no later rule stores again
Final(i) ==
    /\ ColName(config.output_columns[i]) # <<>>
    /\ \A j \in (i + 1)..Len(config.output_columns) :
          ColName(config.output_columns[j]) # ColName(config.output_columns[i])

\* a direct rule: its source is neither empty nor a formula
Direct(col_config) ==
    col_config.source_column # <<>> /\ ~StartsWithEq(col_config.source_column)

\* numbers x, a, b with x = a + b, x = a - b, x = 2 * a
IsSum(x, a, b) ==
    /\ IsNum(x) /\ IsNum(a) /\ IsNum(b)
    /\ x.n * a.d * b.d = (a.n * b.d + b.n * a.d) * x.d
IsDifference(x, a, b) ==
    /\ IsNum(x) /\ IsNum(a) /\ IsNum(b)
    /\ x.n * a.d * b.d = (a.n * b.d - b.n * a.d) * x.d
IsTwice(x, a) ==
    /\ IsNum(x) /\ IsNum(a)
    /\ x.n * a.d = 2 * a.n * x.d
IsInt(x, v) == IsNum(x) /\ x.n = v * x.d

\* The void filter as the configuration describes it: the zero columns the
\* table has, the rows all of whose values in them count as zero, and the
\* positions of the rows that stay.
PresentZeroColumns(df, cfg) ==
    {col \in Range(cfg.void.zero_columns) : col \in Range(df.columns)}
FilterApplies(df, cfg) ==
    cfg.void.enabled /\ PresentZeroColumns(df, cfg) # {}
IsVoidRow(df, cfg, r) ==
    \A col \in PresentZeroColumns(df, cfg) :
        CoercesToZero(df.data[r][ColPos(df, col)])
KeptRows(df, cfg) ==
    SelectSeq([r \in 1..NRows(df) |-> r],
              LAMBDA r : ~FilterApplies(df, cfg) \/ ~IsVoidRow(df, cfg, r))

\* n empty strings
EmptyStrings(n) == [r \in 1..n |-> EmptyStr]

(***************************************************************************)
(* Formulas.                                                               *)
(***************************************************************************)
TotalThenDouble ==
    <<Rule(Total, Formula(A, "+", B), FALSE),
      Rule(Double, Formula(Total, "*", Two), FALSE)>>

\* C1: with output_columns [Total "=A + B", Double "=Total * 2"] over the input
\* columns A and B, every row of Double in the returned table is twice the
\* same row of Total.
C1_DoubleIsTwiceTotal ==
    (/\ Returned
     /\ input_df.columns = <<A, B>>
     /\ config.output_columns = TotalThenDouble)
    => \A r \in DOMAIN ResultColumn(Double) :
          IsTwice(ResultColumn(Double)[r], ResultColumn(Total)[r])

\* C2: the column of the formula "=A + B" over the input columns A and B holds,
\* in every row, the sum of that row's A and B; for A=[1,2], B=[3,4] it is
\* [4,6].
C2_SumOfColumns ==
    (/\ JustApplied
     /\ input_df.columns = <<A, B>>
     /\ LastRule.source_column = Formula(A, "+", B))
    => /\ Len(LastColumn) = NRows(filtered_input_df)
       /\ \A r \in DOMAIN LastColumn :
             IsSum(LastColumn[r], filtered_input_df.data[r][1],
                   filtered_input_df.data[r][2])
       /\ input_df = SumExample /\ ~config.void.enabled
             => IsInt(LastColumn[1], 4) /\ IsInt(LastColumn[2], 6)

\* C3: the column of a formula "=X - Y" whose operands X and Y are the names
\* of the input columns holds, in every row, that row's X minus its Y; for
\* A=[1,2], B=[3,4] and "=A - B" it is [-2,-2].
C3_DifferenceOfColumns ==
    (/\ JustApplied
     /\ Len(input_df.columns) = 2
     /\ LastRule.source_column =
            Formula(input_df.columns[1], "-", input_df.columns[2]))
    => /\ Len(LastColumn) = NRows(filtered_input_df)
       /\ \A r \in DOMAIN LastColumn :
             IsDifference(LastColumn[r], filtered_input_df.data[r][1],
                          filtered_input_df.data[r][2])
       /\ input_df = SumExample /\ ~config.void.enabled
             => IsInt(LastColumn[1], -2) /\ IsInt(LastColumn[2], -2)

\* C4: with void filtering enabled, a word of a formula that matches no input
\* column and names an output column built earlier resolves, for every row the
\* filter kept, to that output column's value for the same row.
C4_OutputValueOfSameRow ==
    (/\ InLoop
     /\ config.void.enabled
     /\ StartsWithEq(ColConfig.source_column))
    => \A word \in Words(FormulaClean(ColConfig.source_column)) :
          (/\ MatchPos(Strip(word), filtered_input_df.columns) = 0
           /\ InDict(output_data, Strip(word)))
          => \A r \in 1..NRows(filtered_input_df) :
                ResolveWord(Strip(word), filtered_input_df.columns,
                            filtered_input_df.data[r], output_data,
                            filtered_input_df.index[r])
                = Some(DictGet(output_data, Strip(word))[r])

(***************************************************************************)
(* The void filter.                                                        *)
(***************************************************************************)
\* C5: _apply_void_filtering returns, in their order and with the columns
\* unchanged, exactly the rows in which not every present zero column counts
\* as zero (a missing or non-numeric value counts as zero); it returns every
\* row when the filter is disabled, zero_columns is empty or none of them is a
\* column of the table.  Of the rows [(0,0),(0,1),(1,0)] with zero_columns
\* [A,B] it removes the first only.
C5_VoidRowsRemoved ==
    pc # "start"
    => /\ filtered_input_df.columns = input_df.columns
       /\ filtered_input_df.data =
              [j \in DOMAIN KeptRows(input_df, config) |->
                  input_df.data[KeptRows(input_df, config)[j]]]
       /\ (\/ ~config.void.enabled
           \/ config.void.zero_columns = <<>>
           \/ \A col \in Range(config.void.zero_columns) :
                 ~HasColumn(input_df, col))
          => filtered_input_df = input_df
       /\ (/\ input_df = VoidExample
           /\ config.void.enabled
           /\ config.void.zero_columns = <<A, B>>)
          => filtered_input_df.data = SubSeq(VoidExample.data, 2, 3)

\* the filter has removed the void row of the example and kept the other two
C5_Witness ==
    /\ pc = "map"
    /\ input_df = VoidExample
    /\ config.void.enabled
    /\ config.void.zero_columns = <<A, B>>
    /\ NRows(filtered_input_df) = 2

\* C6: applying _apply_void_filtering to the table it returned, with the same
\* config, returns that table: the same rows in the same order.
C6_FilterIdempotent ==
    pc = "refiltered" => refiltered = filtered_input_df

\* the filter ran twice on a table of which it removed some rows, not all
C6_Witness ==
    /\ pc = "refiltered"
    /\ NRows(filtered_input_df) > 0
    /\ NRows(filtered_input_df) < NRows(input_df)

(***************************************************************************)
(* Blank and direct rules.                                                 *)
(***************************************************************************)
\* C7, as stated: a rule with an empty source_column yields a column of empty
\* strings only, as long as the input table.
C7_BlankColumnOfInputLength ==
    (JustApplied /\ LastRule.source_column = <<>>)
    => LastColumn = EmptyStrings(NRows(input_df))

\* C7: a rule with a non-blank name and an empty source_column yields a column
\* of empty strings only, with one entry per input row the void filter kept,
\* whatever the input holds: right after the rule is applied, and in the
\* returned table when no later rule stores the name again.
C7_BlankColumnOfKeptLength ==
    /\ (JustApplied /\ LastRule.source_column = <<>>)
       => LastColumn = EmptyStrings(Len(KeptRows(input_df, config)))
    /\ Returned
       => \A i \in DOMAIN config.output_columns :
             (Final(i) /\ config.output_columns[i].source_column = <<>>)
             => ResultColumn(ColName(config.output_columns[i]))
                = EmptyStrings(Len(KeptRows(input_df, config)))

\* a blank rule was applied after the filter removed some rows, not all
C7_Witness ==
    /\ JustApplied
    /\ LastRule.source_column = <<>>
    /\ Len(LastColumn) > 0
    /\ Len(LastColumn) < NRows(input_df)

\* the values of column col in the input rows the void filter kept
KeptValues(col) ==
    [j \in DOMAIN KeptRows(input_df, config) |->
        input_df.data[KeptRows(input_df, config)[j]][ColPos(input_df, col)]]

\* C8: a direct rule whose source_column is the name of an input column and
\* that has no remove_asterisks yields exactly that column's values in the
\* input rows the void filter kept, in order: right after the rule is applied,
\* and in the returned table when no later rule stores the name again.
C8_DirectColumnCopied ==
    /\ (/\ JustApplied
        /\ Direct(LastRule)
        /\ HasColumn(input_df, LastRule.source_column)
        /\ ~LastRule.remove_asterisks)
       => LastColumn = KeptValues(LastRule.source_column)
    /\ Returned
       => \A i \in DOMAIN config.output_columns :
             (/\ Final(i)
              /\ Direct(config.output_columns[i])
              /\ HasColumn(input_df, config.output_columns[i].source_column)
              /\ ~config.output_columns[i].remove_asterisks)
             => ResultColumn(ColName(config.output_columns[i]))
                = KeptValues(config.output_columns[i].source_column)

\* a direct rule copied the second input column, after the filter removed a
\* row and kept a row whose first column holds text
C8_Witness ==
    /\ JustApplied
    /\ Direct(LastRule)
    /\ LastRule.source_column = Net
    /\ ~LastRule.remove_asterisks
    /\ NRows(filtered_input_df) < NRows(input_df)
    /\ \E r \in DOMAIN LastColumn :
          LastColumn[r].n # 0 /\ filtered_input_df.data[r][1].t = "str"

\* C9: a direct rule whose source_column is not the name of an input column
\* yields a column of empty strings only, one per kept row; apply_mapping
\* raises no exception, and the returned table holds the column of every rule
\* with a non-blank name, each with one entry per kept row.
C9_UnknownSourceBlank ==
    /\ ~raised
    /\ (/\ JustApplied
        /\ Direct(LastRule)
        /\ ~HasColumn(input_df, LastRule.source_column))
       => LastColumn = EmptyStrings(Len(KeptRows(input_df, config)))
    /\ pc = "done"
       => /\ Range(result_df.columns) =
                {ColName(config.output_columns[i]) :
                    i \in {j \in DOMAIN config.output_columns :
                              ColName(config.output_columns[j]) # <<>>}}
          /\ \A j \in DOMAIN result_df.cols :
                Len(result_df.cols[j]) = Len(KeptRows(input_df, config))
          /\ \A i \in DOMAIN config.output_columns :
                (/\ Final(i)
                 /\ Direct(config.output_columns[i])
                 /\ ~HasColumn(input_df, config.output_columns[i].source_column))
                => ResultColumn(ColName(config.output_columns[i]))
                   = EmptyStrings(Len(KeptRows(input_df, config)))

\* the returned table holds the blank column of a rule with an unknown source
\* beside a column copied from the input
C9_Witness ==
    /\ Returned
    /\ NRows(filtered_input_df) > 0
    /\ \E i, j \in DOMAIN config.output_columns :
          /\ Final(i)
          /\ Direct(config.output_columns[i])
          /\ ~HasColumn(input_df, config.output_columns[i].source_column)
          /\ ResultColumn(ColName(config.output_columns[i]))
             = EmptyStrings(NRows(filtered_input_df))
          /\ Final(j)
          /\ HasColumn(input_df, config.output_columns[j].source_column)
          /\ \E r \in DOMAIN ResultColumn(ColName(config.output_columns[j])) :
                IsNum(ResultColumn(ColName(config.output_columns[j]))[r])

(***************************************************************************)
(* The order of the columns.                                               *)
(***************************************************************************)
\* the rules that store a name for the first time, and the names they store
FirstRules(cfg) ==
    SelectSeq([i \in DOMAIN cfg.output_columns |-> i],
              LAMBDA i : /\ ColName(cfg.output_columns[i]) # <<>>
                         /\ \A j \in 1..(i - 1) :
                               ColName(cfg.output_columns[j])
                               # ColName(cfg.output_columns[i]))
OutputNames(cfg) ==
    [j \in DOMAIN FirstRules(cfg) |->
        ColName(cfg.output_columns[FirstRules(cfg)[j]])]

\* C10: when column_order is given, the columns of the returned table are the
\* names of column_order that are output columns, in column_order's order,
\* followed by the other output columns in the order of output_columns; the
\* output columns [A,B,C] with column_order [C,A] come out as [C,A,B].
C10_ColumnOrder ==
    Returned
    => /\ config.column_order # <<>>
          => result_df.columns =
                SelectSeq(config.column_order,
                          LAMBDA col : col \in Range(OutputNames(config)))
                \o SelectSeq(OutputNames(config),
                             LAMBDA col : col \notin Range(config.column_order))
       /\ (OutputNames(config) = <<A, B, C>> /\ config.column_order = <<C, A>>)
          => result_df.columns = <<C, A, B>>

\* the output columns [A,B,C] were returned under column_order [C,A]
C10_Witness ==
    /\ Returned
    /\ OutputNames(config) = <<A, B, C>>
    /\ config.column_order = <<C, A>>
    /\ result_df.columns = <<C, A, B>>

(***************************************************************************)
(* The evaluation of a formula, row by row.                                *)
(***************************************************************************)
\* the loop is at a formula rule
AtFormula ==
    /\ InLoop
    /\ ColName(ColConfig) # <<>>
    /\ StartsWithEq(ColConfig.source_column)

\* the expression substituted for the row at position r of the filtered
\* input, when the words of the formula at hand are visited in the order words
Substituted(words, r) ==
    replace_formula_references(FormulaClean(ColConfig.source_column), words,
                               filtered_input_df.columns,
                               filtered_input_df.data[r], output_data,
                               filtered_input_df.index[r])

\* the value the formula at hand gives that row
RowValue(words, r) ==
    EvaluateRow(FormulaClean(ColConfig.source_column), words,
                filtered_input_df, output_data, r)

\* digits, + - * / ( ) . and blanks only, and no banned substring
Restricted(expr) ==
    /\ \A j \in DOMAIN expr :
          expr[j] \in Digits \cup {"+", "-", "*", "/", "(", ")", ".", " "}
    /\ \A bad \in Dangerous : ~Contains(Lower(expr), bad)

\* the expression is handed to eval, as it is or with its quotes stripped
Evaluated(expr) ==
    is_safe_expression(expr) \/ is_safe_expression(StripQuotes(expr))

\* C11: a substituted expression that, with or without its double quotes, is
\* not made of digits, + - * / ( ) . and blanks only, or holds a banned
\* substring, is never evaluated and gives 0 for its row.
C11_OnlyRestrictedEvaluated ==
    AtFormula
    => \A words \in WordOrders(FormulaClean(ColConfig.source_column)) :
          \A r \in 1..NRows(filtered_input_df) :
             (/\ ~Restricted(Substituted(words, r))
              /\ ~Restricted(StripQuotes(Substituted(words, r))))
             => /\ ~Evaluated(Substituted(words, r))
                /\ RowValue(words, r) = IntCell(0)

IsQuotient(x, a, b) ==
    /\ IsNum(x) /\ IsNum(a) /\ IsNum(b)
    /\ x.n * b.n * a.d = a.n * b.d * x.d

\* C12: a formula column has one value per row of the filtered input; a row
\* whose expression is not evaluated, is malformed or divides by zero gets 0,
\* and the other rows keep their values: "=Gross / Net" gives 0 in the rows
\* where Net is 0 and Gross / Net in all others.
C12_RowIsolation ==
    /\ (JustApplied /\ StartsWithEq(LastRule.source_column))
       => Len(LastColumn) = NRows(filtered_input_df)
    /\ AtFormula
       => \A words \in WordOrders(FormulaClean(ColConfig.source_column)) :
             \A r \in 1..NRows(filtered_input_df) :
                (\/ ~Evaluated(Substituted(words, r))
                 \/ (/\ is_safe_expression(Substituted(words, r))
                     /\ ~Eval(Substituted(words, r)).ok))
                => RowValue(words, r) = IntCell(0)
    /\ (/\ JustApplied
        /\ input_df.columns = <<Gross, Net>>
        /\ LastRule.source_column = Formula(Gross, "/", Net))
       => \A r \in DOMAIN LastColumn :
             IF filtered_input_df.data[r][2].n = 0
             THEN LastColumn[r] = IntCell(0)
             ELSE IsQuotient(LastColumn[r], filtered_input_df.data[r][1],
                             filtered_input_df.data[r][2])

\* "=Gross / Net" was applied to a row that divides by zero and to a row that
\* does not
C12_Witness ==
    /\ JustApplied
    /\ LastRule.source_column = Formula(Gross, "/", Net)
    /\ \E r, q \in DOMAIN LastColumn :
          /\ filtered_input_df.data[r][2].n = 0
          /\ LastColumn[r] = IntCell(0)
          /\ filtered_input_df.data[q][2].n # 0
          /\ LastColumn[q].n # 0

\* C13: when a word of the formula resolves to no input column and to no
\* earlier output column for a row, the formula gives 0 for that row.
C13_UnresolvedGivesZero ==
    AtFormula
    => \A words \in WordOrders(FormulaClean(ColConfig.source_column)) :
          \A r \in 1..NRows(filtered_input_df) :
             (\E word \in Words(FormulaClean(ColConfig.source_column)) :
                 ~ResolveWord(Strip(word), filtered_input_df.columns,
                              filtered_input_df.data[r], output_data,
                              filtered_input_df.index[r]).found)
             => IsInt(RowValue(words, r), 0)

\* C14: every column built so far, and every column of the returned table,
\* has one entry per input row the void filter kept, and no row of the
\* filtered input is void.
C14_ColumnsOfKeptLength ==
    /\ \A j \in DOMAIN output_data.cols :
          Len(output_data.cols[j]) = Len(KeptRows(input_df, config))
    /\ \A j \in DOMAIN result_df.cols :
          Len(result_df.cols[j]) = Len(KeptRows(input_df, config))
    /\ (pc # "start" /\ FilterApplies(input_df, config))
       => \A r \in 1..NRows(filtered_input_df) :
             ~IsVoidRow(filtered_input_df, config, r)

\* a formula, a blank and a direct column were returned after the filter
\* removed some rows, not all
C14_Witness ==
    /\ Returned
    /\ result_df.columns = <<Total, Blank, Copy>>
    /\ Len(result_df.cols[1]) > 0
    /\ Len(result_df.cols[1]) < NRows(input_df)

(***************************************************************************)
(* validate_config, save_config and load_config.                           *)
(***************************************************************************)
Validated == pc = "validated"
Accepted == Validated /\ ~raised

\* the rules of a config whose output_columns is a list of mappings
HasRules(cfg) ==
    /\ cfg.t = "dict"
    /\ HasKey(cfg, "output_columns")
    /\ Get(cfg, "output_columns").t = "list"
    /\ \A rule \in Range(Get(cfg, "output_columns").items) : rule.t = "dict"
Rules(cfg) == Get(cfg, "output_columns").items

\* a value that is, or parses to, a number greater than 0
PositiveNumber(value) ==
    /\ float(value).ok
    /\ ~float(value).nan
    /\ float(value).n > 0

\* C15: validate_config raises for every config whose output_columns is
\* empty, or one of whose rules has no name, an alignment other than left,
\* center and right, or a width that is not a positive number.
C15_BadRulesRejected ==
    (/\ Validated
     /\ HasRules(config)
     /\ \/ Rules(config) = <<>>
        \/ \E rule \in Range(Rules(config)) :
              \/ ~HasKey(rule, "name")
              \/ /\ HasKey(rule, "alignment")
                 /\ ~AlignmentPasses(Get(rule, "alignment"))
              \/ /\ HasKey(rule, "width")
                 /\ ~PositiveNumber(Get(rule, "width")))
    => raised

\* C16: the rules of a config that validate_config accepts have pairwise
\* distinct names.
C16_AcceptedNamesDistinct ==
    Accepted
    => \A i, j \in DOMAIN Rules(config) :
          i # j => Get(Rules(config)[i], "name") # Get(Rules(config)[j], "name")

\* exactly 6 hexadecimal digits
SixHexDigits(str) == Len(str) = 6 /\ \A j \in DOMAIN str : str[j] \in HexDigits

\* a config that is valid but for the string at header_formatting[field]
OnlyColor(cfg, field) ==
    /\ cfg.t = "dict"
    /\ cfg.keys = <<"output_columns", "header_formatting">>
    /\ validate_output_columns(cfg)
    /\ Get(cfg, "header_formatting").t = "dict"
    /\ Get(cfg, "header_formatting").keys = <<field>>
    /\ Get(Get(cfg, "header_formatting"), field).t = "str"
Color(cfg, field) == Get(Get(cfg, "header_formatting"), field).s

\* C17: a string background_color or font_color is accepted exactly when it
\* is empty or consists of 6 hexadecimal digits.
C17_ColorAcceptedIffSixHex ==
    \A field \in {"background_color", "font_color"} :
       (Validated /\ OnlyColor(config, field))
       => (~raised <=> (\/ Color(config, field) = <<>>
                        \/ SixHexDigits(Color(config, field))))

\* ^[A-Z]+[0-9]+$, matched without regard to case
IsCellRef(str) ==
    \E p \in 1..(Len(str) - 1) :
       /\ \A j \in 1..p : str[j] \in Letters
       /\ \A j \in (p + 1)..Len(str) : str[j] \in Digits

\* a config that is valid but for general_settings.freeze_panes
OnlyFreezePanes(cfg) ==
    /\ cfg.t = "dict"
    /\ cfg.keys = <<"output_columns", "general_settings">>
    /\ validate_output_columns(cfg)
    /\ Get(cfg, "general_settings").t = "dict"
    /\ Get(cfg, "general_settings").keys = <<"freeze_panes">>
FreezePanesOf(cfg) == Get(Get(cfg, "general_settings"), "freeze_panes")

\* C18: a freeze_panes that is present is accepted only when it is a cell
\* reference string or a mapping with a boolean freeze_header and a list of
\* strings as freeze_columns, where these are present; every other value,
\* the empty string included, is rejected.
C18_FreezePanesAcceptedOnlyWellFormed ==
    (Accepted /\ OnlyFreezePanes(config))
    => \/ /\ FreezePanesOf(config).t = "str"
          /\ IsCellRef(FreezePanesOf(config).s)
       \/ /\ FreezePanesOf(config).t = "dict"
          /\ FreezeDictPasses(FreezePanesOf(config))

\* save_config then load_config of the same path have returned
Reloaded == pc = "reloaded"

\* C19: a config that validate_config accepts is saved without an error, and
\* load_config of the file returns, without an error, a config that equals
\* it and that validate_config accepts.
C19_RoundTrip ==
    /\ (pc = "saved" /\ validate_config(config)) => ~raised
    /\ (Reloaded /\ validate_config(config))
       => /\ ~raised
          /\ loaded = config
          /\ validate_config(loaded)

\* C20: save_config of a config that validate_config rejects raises and
\* leaves config_path as it was, with no file or with the file it had;
\* load_config of a file whose content validate_config rejects raises and
\* returns nothing.
C20_ValidationGatesPersistence ==
    [][/\ (SaveConfig /\ ~validate_config(config))
          => (raised' /\ config_file' = config_file)
       /\ (LoadConfig /\ config_file # NoFile
                      /\ ~validate_config(json_load(config_file)))
          => (raised' /\ loaded' = PyNone)]_vars

\* a rejected config was not saved over the file of an earlier config
C20_Witness ==
    /\ pc = "saved"
    /\ raised
    /\ ~validate_config(config)
    /\ config_file # NoFile
    /\ validate_config(json_load(config_file))

(***************************************************************************)
(* The resolution and the substitution of the words of a formula.          *)
(***************************************************************************)
\* the input columns that match a token in each of the three ways
ExactColumns(token) ==
    {j \in DOMAIN filtered_input_df.columns :
        filtered_input_df.columns[j] = token}
NoCaseColumns(token) ==
    {j \in DOMAIN filtered_input_df.columns :
        Lower(filtered_input_df.columns[j]) = Lower(token)}
PartialColumns(token) ==
    {j \in DOMAIN filtered_input_df.columns :
        \/ Contains(Lower(filtered_input_df.columns[j]), Lower(token))
        \/ Contains(Lower(token), Lower(filtered_input_df.columns[j]))}

\* the input column a token stands for, 0 if no input column matches it
InputColumnOf(token) ==
    IF ExactColumns(token) # {} THEN Min(ExactColumns(token))
    ELSE IF NoCaseColumns(token) # {} THEN Min(NoCaseColumns(token))
    ELSE IF PartialColumns(token) # {} THEN Min(PartialColumns(token))
    ELSE 0

\* what the token resolves to for the row at position r
Resolved(token, r) ==
    ResolveWord(token, filtered_input_df.columns, filtered_input_df.data[r],
                output_data, filtered_input_df.index[r])

\* C26: a token resolves to the number in the input column of exactly its
\* name; failing that, in the first input column of its name in another case;
\* failing that, in the first input column whose name contains it or is
\* contained in it, case ignored; a value of an earlier output column of its
\* name is taken only when no input column matches in any of these ways.
C26_ResolutionPriority ==
    AtFormula
    => \A word \in Words(FormulaClean(ColConfig.source_column)) :
          \A r \in 1..NRows(filtered_input_df) :
             IF InputColumnOf(Strip(word)) # 0
             THEN Resolved(Strip(word), r)
                  = Some(to_numeric(
                       filtered_input_df.data[r][InputColumnOf(Strip(word))]))
             ELSE Resolved(Strip(word), r).found
                  => /\ InDict(output_data, Strip(word))
                     /\ Resolved(Strip(word), r).value
                        \in Range(DictGet(output_data, Strip(word)))

\* "=Net * 2" is at hand for columns Net Pay and Net that differ in a row,
\* or "=Tax * 2" after the output column Tax was built
C26_Witness ==
    /\ AtFormula
    /\ filtered_input_df.columns = <<NetPay, Net>>
    /\ \E r \in 1..NRows(filtered_input_df) :
          /\ filtered_input_df.data[r][1] # filtered_input_df.data[r][2]
          /\ \/ /\ ColConfig.source_column = Formula(Net, "*", Two)
                /\ Resolved(Net, r) = Some(to_numeric(filtered_input_df.data[r][2]))
             \/ /\ ColConfig.source_column = Formula(Lower(Net), "*", Two)
                /\ Resolved(Lower(Net), r)
                   = Some(to_numeric(filtered_input_df.data[r][2]))

\* C27: for every formula and row, every order in which the words are
\* substituted gives the same expression, and so the same value.
C27_SubstitutionOrderIndependent ==
    AtFormula
    => \A words, other \in WordOrders(FormulaClean(ColConfig.source_column)) :
          \A r \in 1..NRows(filtered_input_df) :
             /\ Substituted(words, r) = Substituted(other, r)
             /\ RowValue(words, r) = RowValue(other, r)

\* C28: whatever column_order is, each column apply_mapping built appears
\* exactly once in the returned table.
C28_ColumnsArePermutation ==
    Returned
    => /\ Len(result_df.columns) = Len(output_data.keys)
       /\ \A name \in Range(output_data.keys) :
             Cardinality({j \in DOMAIN result_df.columns :
                             result_df.columns[j] = name}) = 1

(***************************************************************************)
(* C21: _find_header_row returns the smallest index among the first 20     *)
(* rows of the sheet (and only those) of a row that contains at least 3    *)
(* distinct header keywords, and None when no row among the first 20 does. *)
(***************************************************************************)
\* row i (from 0) of the sheet contains at least 3 distinct keywords
Qualifies(i) ==
    Cardinality({kw \in Range(header_keywords) :
                    Contains(row_str(df_raw[i + 1]), kw)}) >= 3

\* row i is one of the first 20 rows of the sheet
AmongFirstTwenty(i) == i \in 0..19 /\ i < Len(df_raw)

C21_HeaderAmongFirstTwenty ==
    pc = "returned" =>
        /\ \A i \in 0..(Len(df_raw) - 1) :
              header_row = <<i>> <=>
                  /\ AmongFirstTwenty(i)
                  /\ Qualifies(i)
                  /\ \A j \in 0..(i - 1) : ~Qualifies(j)
        /\ header_row = <<>> <=> ~\E i \in 0..19 : AmongFirstTwenty(i) /\ Qualifies(i)

(***************************************************************************)
(* C24: in the written sheet the alignment, width and number_format of     *)
(* each rule are on the sheet column that holds the output column of the   *)
(* rule's name, also when column_order reorders the columns or rules with  *)
(* blank names are skipped.                                                *)
(***************************************************************************)
\* the formatted workbook has been saved
FormattingWritten ==
    /\ pc = "saved"
    /\ ~(/\ Truthy(config.general_settings.freeze_panes)
         /\ FreezeRaises(config.general_settings.freeze_panes))

\* the sheet column that holds the output column of the name
SheetColumn(name) ==
    CHOOSE j \in DOMAIN output_file.columns : output_file.columns[j] = name

\* the column of rule i carries the styling of rule i
StyledAsRule(i) ==
    /\ output_file.rows > 0 =>
          output_file.alignment[SheetColumn(ColName(config.output_columns[i]))]
              = config.output_columns[i].alignment
    /\ ~config.general_settings.auto_fit_columns =>
          output_file.width[SheetColumn(ColName(config.output_columns[i]))]
              = <<config.output_columns[i].width>>
    /\ (output_file.rows > 0
        /\ HasKey(config.output_columns[i].formatting, "number_format")) =>
          output_file.number_format[SheetColumn(ColName(config.output_columns[i]))]
              = Get(config.output_columns[i].formatting, "number_format").s

C24_StylingFollowsColumn ==
    FormattingWritten =>
        \A i \in DOMAIN config.output_columns :
            (Final(i) /\ ColName(config.output_columns[i]) \in Range(output_file.columns))
                => StyledAsRule(i)

(***************************************************************************)
(* C25: when general_settings.freeze_panes is the structured form that     *)
(* validate_config accepts and the GUI produces, the written sheet has a   *)
(* frozen pane and the header and column styling is still written.         *)
(***************************************************************************)
StructuredFreeze ==
    /\ config.general_settings.freeze_panes.t = "dict"
    /\ Truthy(config.general_settings.freeze_panes)
    /\ FreezePanesPasses(config.general_settings.freeze_panes)

C25_StructuredFreezeHonoured ==
    (pc = "saved" /\ StructuredFreeze) =>
        /\ output_file.freeze_panes # <<>>
        /\ \A j \in DOMAIN output_file.columns :
              output_file.header[j] = HeaderStyle(config.header_formatting)
        /\ \A j \in DOMAIN output_file.columns :
              j <= Len(config.output_columns) => output_file.width[j] # <<>>

(***************************************************************************)
(* C22: process_folder attempts every spreadsheet file of the folder       *)
(* exactly once, also after a file has failed, and the list it returns     *)
(* holds exactly one output path for each file that was processed and      *)
(* none for a failed file.                                                 *)
(***************************************************************************)
IsSpreadsheet(f) == \E j \in DOMAIN GlobExtensions : EndsWith(f.name, GlobExtensions[j])

\* the attempts that succeeded, in their order
Succeeded == SelectSeq(attempts, LAMBDA f : f.readable)

C22_EveryFileAttemptedOnce ==
    pc = "returned" =>
        /\ \A f \in folder :
              Cardinality({i \in DOMAIN attempts : attempts[i] = f})
                  = IF IsSpreadsheet(f) THEN 1 ELSE 0
        /\ \A i \in DOMAIN attempts : attempts[i] \in folder
        /\ Len(output_files) = Len(Succeeded)
        /\ \A i \in DOMAIN output_files :
              \E t \in 0..MaxSeconds :
                  output_files[i] = output_filename(Succeeded[i].name, t)

\* a batch in which a file failed and a later one was processed
C22_Witness ==
    /\ pc = "returned"
    /\ \E i, j \in DOMAIN attempts :
          i < j /\ ~attempts[i].readable /\ attempts[j].readable
    /\ output_files # <<>>

(***************************************************************************)
(* C23: a config that is used to process a file has passed validate_config *)
(* first; a config that fails validation is never passed to apply_mapping. *)
(***************************************************************************)
C23_ValidatedBeforeUse ==
    \A i \in DOMAIN mapping_calls : validate_config(mapping_calls[i])

(***************************************************************************)
(* C29: in process_folder the output paths of distinct input files that    *)
(* were processed are pairwise distinct, also for files with the same stem *)
(* and different extensions that are processed within the same second.     *)
(***************************************************************************)
C29_OutputPathsDistinct ==
    pc = "returned" =>
        \A i, j \in DOMAIN output_files : i # j => output_files[i] # output_files[j]

(***************************************************************************)
(* C30: changing a config that get_default_config returned, its nested     *)
(* lists and dicts included, never changes DEFAULT_MAPPING_CONFIG nor the  *)
(* config a later call returns.                                            *)
(***************************************************************************)
\* the value of v with every reference replaced by the value it refers to
RECURSIVE Deep(_, _)
Deep(objects, v) ==
    IF v.t # "ref" THEN v
    ELSE PyValue(objects[v.n].t, 0, 1, <<>>, objects[v.n].keys,
                 [j \in DOMAIN objects[v.n].items |-> Deep(objects, objects[v.n].items[j])])

C30_DefaultConfigIsolated ==
    heap # <<>> =>
        /\ Deep(heap, DEFAULT_MAPPING_CONFIG) = Deep(DefaultHeap, DEFAULT_MAPPING_CONFIG)
        /\ pc = "returned" =>
              Deep(heap, configs[Len(configs)]) = Deep(DefaultHeap, DEFAULT_MAPPING_CONFIG)

====
